---------------------------- MODULE Spec2Model ----------------------------
(***************************************************************************)
(* A model of the solar-geometry / irradiance / PV engine of               *)
(* src/solar_model.py and of the tracker-specific optimal-tilt searches of *)
(* src/tracker_optimal_tilt_methods.py.                                    *)
(*                                                                         *)
(* The program computes in IEEE doubles; the model computes the same       *)
(* formulas in fixed point, in the units below:                            *)
(*   angles            centi-degrees            (3205 is 32.05 deg)        *)
(*   sin, cos, IAM ... 1/10000                  (SC)                       *)
(*   exp(-x)           1/100000                 (ESC), x in 1/10000        *)
(*   irradiance, power centi-W/m2               (100 is 1 W/m2)            *)
(*   temperature       centi-degrees Celsius                               *)
(*   efficiency        1/10000                  (2000 is 0.20)             *)
(* None (below) stands for Python's None.                                  *)
(***************************************************************************)
EXTENDS Integers, Sequences, FiniteSets, TLC

\* ------------------------------------------------------------------------
\* Fixed-point arithmetic (numpy's sin, cos, arcsin, arccos, arctan2, exp)
\* ------------------------------------------------------------------------

SC == 10 * 1000
ESC == 100 * 1000
None == 0 - 999999
INF == 1000 * 1000 * 1000

Abs(x) == IF x < 0 THEN -x ELSE x
Max(a, b) == IF a >= b THEN a ELSE b
Min(a, b) == IF a <= b THEN a ELSE b
\* np.clip
Clip(x, lo, hi) == Max(lo, Min(hi, x))
\* a / b rounded to the nearest integer, b > 0
RDiv(a, b) == (a + (b \div 2)) \div b
\* a * b / SC
Mul(a, b) == RDiv(a * b, SC)

\* 10000 * sin(d degrees), d = 0 .. 90, at index d + 1
SinTab == <<
    0, 175, 349, 523, 698, 872, 1045, 1219, 1392, 1564,
    1736, 1908, 2079, 2250, 2419, 2588, 2756, 2924, 3090, 3256,
    3420, 3584, 3746, 3907, 4067, 4226, 4384, 4540, 4695, 4848,
    5000, 5150, 5299, 5446, 5592, 5736, 5878, 6018, 6157, 6293,
    6428, 6561, 6691, 6820, 6947, 7071, 7193, 7314, 7431, 7547,
    7660, 7771, 7880, 7986, 8090, 8192, 8290, 8387, 8480, 8572,
    8660, 8746, 8829, 8910, 8988, 9063, 9135, 9205, 9272, 9336,
    9397, 9455, 9511, 9563, 9613, 9659, 9703, 9744, 9781, 9816,
    9848, 9877, 9903, 9925, 9945, 9962, 9976, 9986, 9994, 9998,
    10000 >>

\* sin on the first quadrant, 0 <= x <= 9000, linear between the degrees
SinQ(x) ==
    LET d == x \div 100
        f == x % 100
    IN  IF f = 0 THEN SinTab[d + 1]
        ELSE SinTab[d + 1] + RDiv((SinTab[d + 2] - SinTab[d + 1]) * f, 100)

\* np.sin(np.radians(a)), a in centi-degrees
Sin(a) ==
    LET m == a % 36000
    IN  IF m <= 9000 THEN SinQ(m)
        ELSE IF m <= 18000 THEN SinQ(18000 - m)
        ELSE IF m <= 27000 THEN -SinQ(m - 18000)
        ELSE -SinQ(36000 - m)

\* np.cos(np.radians(a))
Cos(a) == Sin(a + 9000)

\* the degree d in lo .. hi with SinTab[d + 1] <= v < SinTab[d + 2]
RECURSIVE SinIndex(_, _, _)
SinIndex(v, lo, hi) ==
    IF lo >= hi THEN lo
    ELSE LET mid == (lo + hi + 1) \div 2
         IN  IF SinTab[mid + 1] <= v THEN SinIndex(v, mid, hi)
             ELSE SinIndex(v, lo, mid - 1)

\* arcsin on 0 <= v <= SC, in centi-degrees
ArcSinQ(v) ==
    IF v >= SC THEN 9000
    ELSE LET d == SinIndex(v, 0, 89)
         IN  d * 100 + RDiv((v - SinTab[d + 1]) * 100, SinTab[d + 2] - SinTab[d + 1])

\* np.degrees(np.arcsin(v)), -SC <= v <= SC
ArcSin(v) == IF v < 0 THEN -ArcSinQ(-v) ELSE ArcSinQ(v)

\* np.degrees(np.arccos(v))
ArcCos(v) == 9000 - ArcSin(v)

\* 10000 * tan(d degrees), d = 0 .. 45
TanDeg(d) == RDiv(SinTab[d + 1] * SC, SinTab[91 - d])

\* the degree d in lo .. hi with TanDeg(d) <= t < TanDeg(d + 1)
RECURSIVE TanIndex(_, _, _)
TanIndex(t, lo, hi) ==
    IF lo >= hi THEN lo
    ELSE LET mid == (lo + hi + 1) \div 2
         IN  IF TanDeg(mid) <= t THEN TanIndex(t, mid, hi)
             ELSE TanIndex(t, lo, mid - 1)

\* arctan(p / q) for 0 <= p <= q, q > 0: 0 .. 4500
ArcTanQ(p, q) ==
    LET t == RDiv(p * SC, q)
    IN  IF t >= SC THEN 4500
        ELSE LET d == TanIndex(t, 0, 44)
             IN  d * 100 + RDiv((t - TanDeg(d)) * 100, TanDeg(d + 1) - TanDeg(d))

\* np.degrees(np.arctan2(x, y)): the angle from the +y axis (North) towards
\* the +x axis (East), in (-18000, 18000]; arctan2(0, 0) = 0
ArcTan2(x, y) ==
    LET ax == Abs(x)
        ay == Abs(y)
        a0 == IF ax = 0 /\ ay = 0 THEN 0
              ELSE IF ax <= ay THEN ArcTanQ(ax, ay)
              ELSE 9000 - ArcTanQ(ay, ax)
    IN  IF y >= 0 THEN (IF x >= 0 THEN a0 ELSE -a0)
        ELSE (IF x >= 0 THEN 18000 - a0 ELSE a0 - 18000)

\* 100000 * exp(-n), n = 0 .. 12, at index n + 1
ExpIntTab == << 100000, 36788, 13534, 4979, 1832, 674, 248, 91, 34, 12, 5, 2, 1 >>
\* 100000 * exp(-j / 10), j = 0 .. 9, at index j + 1
ExpTenthTab == << 100000, 90484, 81873, 74082, 67032, 60653, 54881, 49659, 44933, 40657 >>

\* np.exp(-x), x >= 0 in 1/10000, result in 1/100000
ExpNeg(x) ==
    LET n == x \div SC
        j == (x % SC) \div 1000
        r == x % 1000
        \* 1 - r + r^2/2 - r^3/6 for r < 0.1
        tay == ESC - 10 * r + RDiv(r * r, 2000) - RDiv(r * r * r, 60 * 1000 * 1000)
        fr == RDiv(ExpTenthTab[j + 1] * RDiv(tay, 10), SC)
    IN  IF n > 12 THEN 0
        ELSE RDiv(ExpIntTab[n + 1] * RDiv(fr, 10), SC)

\* Python's round(n / d), d > 0: to the nearest integer, a tie to the even one
PyRound(n, d) ==
    LET q == n \div d
        r == n % d
    IN  IF 2 * r < d THEN q
        ELSE IF 2 * r > d THEN q + 1
        ELSE IF q % 2 = 0 THEN q ELSE q + 1

\* ------------------------------------------------------------------------
\* SolarModel: the object's fields
\* ------------------------------------------------------------------------

VARIABLES
    latitude,             \* self.latitude, centi-degrees
    longitude,            \* self.longitude, centi-degrees
    local_time_meridian,  \* self.local_time_meridian, centi-degrees
    tilt,                 \* self.tilt, centi-degrees
    azimuth               \* self.azimuth, centi-degrees

model_vars == << latitude, longitude, local_time_meridian, tilt, azimuth >>

\* __init__ with the meridian truncated, int(longitude / 15) * 15
SolarModelInitTruncating(lat, lon) ==
    /\ latitude = lat
    /\ longitude = lon
    /\ local_time_meridian = (IF lon >= 0 THEN lon \div 1500 ELSE -((-lon) \div 1500)) * 1500
    /\ tilt = Abs(lat)
    /\ azimuth = IF lat < 0 THEN 0 ELSE 18000

\* __init__(latitude, longitude)
SolarModelInit(lat, lon) ==
    /\ latitude = lat
    /\ longitude = lon
    /\ local_time_meridian = PyRound(lon, 1500) * 1500
    /\ tilt = Abs(lat)
    /\ azimuth = IF lat < 0 THEN 0 ELSE 18000

\* 2 * pi / period * (n - offset), as an angle in centi-degrees
YearAngle(n, offset, period) == RDiv(36000 * (n - offset), period)

\* calculate_ambient_temperature with the seasonal amplitude on the bands of
\* the annual mean (temperate below 50 degrees)
calculate_ambient_temperature_mean_bands(day_of_year, hour) ==
    LET abs_lat == Abs(latitude)
        T_avg == IF abs_lat < 2345 THEN 2700 - RDiv(15 * abs_lat, 100)
                 ELSE IF abs_lat < 5000 THEN 3000 - RDiv(40 * abs_lat, 100)
                 ELSE 2000 - RDiv(30 * abs_lat, 100)
        delta_T_seasonal == IF abs_lat < 2345 THEN 200 + RDiv(15 * abs_lat, 100)
                            ELSE IF abs_lat < 5000 THEN 500 + RDiv(30 * abs_lat, 100)
                            ELSE 2000
        delta_T_diurnal == 1000
        day_offset == IF latitude < 0 THEN 15 ELSE 195
        T_seasonal == T_avg + Mul(delta_T_seasonal, Cos(YearAngle(day_of_year, day_offset, 365)))
        hour_offset == 3
        T_diurnal_variation == -Mul(delta_T_diurnal, Cos(1500 * (hour - hour_offset)))
        T_amb == T_seasonal + T_diurnal_variation
    IN  Clip(T_amb, -5000, 5500)

\* calculate_ambient_temperature(day_of_year, hour), centi-degrees Celsius
calculate_ambient_temperature(day_of_year, hour) ==
    LET abs_lat == Abs(latitude)
        T_avg == IF abs_lat < 2345 THEN 2700 - RDiv(15 * abs_lat, 100)
                 ELSE IF abs_lat < 5000 THEN 3000 - RDiv(40 * abs_lat, 100)
                 ELSE 2000 - RDiv(30 * abs_lat, 100)
        delta_T_seasonal == IF abs_lat < 2345 THEN 200 + RDiv(15 * abs_lat, 100)
                            ELSE IF abs_lat < 6650 THEN 500 + RDiv(30 * abs_lat, 100)
                            ELSE 2000
        delta_T_diurnal == 1000
        day_offset == IF latitude < 0 THEN 15 ELSE 195
        T_seasonal == T_avg + Mul(delta_T_seasonal, Cos(YearAngle(day_of_year, day_offset, 365)))
        hour_offset == 3
        T_diurnal_variation == -Mul(delta_T_diurnal, Cos(1500 * (hour - hour_offset)))
        T_amb == T_seasonal + T_diurnal_variation
    IN  Clip(T_amb, -5000, 5500)

\* the quadrant check with the thesis (southern-hemisphere) branch taken in
\* both hemispheres
CheckQuadrantThesis(phi_s_0, condition_met) ==
    LET reflected == IF phi_s_0 > 0 THEN 18000 - phi_s_0 ELSE -18000 - phi_s_0
    IN  IF ~condition_met THEN reflected ELSE phi_s_0

\* "Check quadrant [Eq 6.1]": the arcsin azimuth, reflected to |phi_s| > 90
\* when the hemisphere's branch says the sun is in the southern sky
CheckQuadrant(phi_s_0, condition_met) ==
    LET is_north_hemisphere == latitude >= 0
        reflected == IF phi_s_0 > 0 THEN 18000 - phi_s_0 ELSE -18000 - phi_s_0
    IN  IF is_north_hemisphere
        THEN (IF condition_met THEN reflected ELSE phi_s_0)
        ELSE (IF ~condition_met THEN reflected ELSE phi_s_0)

\* calculate_geometry(day_of_year, hour) for a float hour, given as the clock
\* time in 1/100 minute (hour * 60 * 100): angles in centi-degrees, solar_time
\* in 1/100 minute
calculate_geometry_clock(day_of_year, clock) ==
    LET n == day_of_year
        delta_deg == RDiv(2345 * Sin(YearAngle(n, 81, 365)), SC)
        B == YearAngle(n, 81, 364)
        E_min == RDiv(987 * Sin(2 * B) - 753 * Cos(B) - 150 * Sin(B), SC)
        time_correction_min == 4 * (longitude - local_time_meridian) + E_min
        solar_time == clock + time_correction_min
        H_deg == RDiv(12 * 6000 - solar_time, 4)
        sin_beta == Mul(Mul(Cos(latitude), Cos(delta_deg)), Cos(H_deg))
                    + Mul(Sin(latitude), Sin(delta_deg))
        beta_deg == ArcSin(Clip(sin_beta, -SC, SC))
        cos_beta == Cos(beta_deg)
        sin_phi_s == RDiv(Cos(delta_deg) * Sin(H_deg), cos_beta)
        phi_s_0 == ArcSin(Clip(sin_phi_s, -SC, SC))
        tan_delta == RDiv(Sin(delta_deg) * SC, Cos(delta_deg))
        \* tan(lat); at |lat| = 90 (cos = 0) the float is about 1.6e16
        tan_lat == IF Cos(latitude) = 0 THEN (IF latitude < 0 THEN -INF ELSE INF)
                   ELSE RDiv(Sin(latitude) * SC, Cos(latitude))
        check_val == IF tan_lat = 0 THEN (IF tan_delta >= 0 THEN INF ELSE -INF)
                     ELSE IF Abs(tan_lat) = INF THEN 0
                     ELSE IF tan_lat > 0 THEN RDiv(tan_delta * SC, tan_lat)
                     ELSE -RDiv(tan_delta * SC, -tan_lat)
        phi_s_deg == IF cos_beta = 0 THEN 0
                     ELSE CheckQuadrant(phi_s_0, Cos(H_deg) >= check_val)
    IN  [ declination |-> delta_deg,
          hour_angle |-> H_deg,
          solar_time |-> solar_time,
          elevation |-> beta_deg,
          azimuth |-> phi_s_deg ]

\* calculate_geometry(day_of_year, hour) at a whole hour
calculate_geometry(day_of_year, hour) == calculate_geometry_clock(day_of_year, hour * 6000)

\* calculate_irradiance without the "if elevation_deg <= 0" early return: the
\* clear-sky formulas applied below the horizon as well
calculate_irradiance_no_night_return(day_of_year, elevation_deg) ==
    LET n == day_of_year
        A == 11600 + RDiv(750 * Sin(YearAngle(n, 275, 365)), SC)
        k == 17400 + RDiv(3500 * Sin(YearAngle(n, 100, 365)), SC)
        sin_beta == Sin(elevation_deg)
        m_div == IF sin_beta < 100 THEN 100 ELSE sin_beta
        m == RDiv(100 * SC, m_div)
        km == RDiv(k * 1000, m_div)
        Ib == RDiv(A * ExpNeg(km), SC)
        C == 9500 + RDiv(4000 * Sin(YearAngle(n, 100, 365)), SC)
        Idh == RDiv(C * Ib, ESC)
        GHI == Mul(Ib, Sin(elevation_deg)) + Idh
    IN  [ extraterrestrial |-> A, optical_depth |-> k, air_mass |-> m,
          dni |-> Ib, diffuse_factor |-> C, diffuse_horizontal |-> Idh,
          global_horizontal |-> GHI ]

\* calculate_irradiance(day_of_year, elevation_deg): extraterrestrial in
\* deci-W/m2, optical_depth and diffuse_factor in 1/100000, air_mass in
\* 1/100, the irradiances in centi-W/m2
calculate_irradiance(day_of_year, elevation_deg) ==
    LET n == day_of_year
        A == 11600 + RDiv(750 * Sin(YearAngle(n, 275, 365)), SC)
        k == 17400 + RDiv(3500 * Sin(YearAngle(n, 100, 365)), SC)
        sin_beta == Sin(elevation_deg)
        \* the divisor of the air mass: m = 1 / 0.01 below sin(beta) = 0.01
        m_div == IF sin_beta < 100 THEN 100 ELSE sin_beta
        m == RDiv(100 * SC, m_div)
        \* k * m in 1/10000
        km == RDiv(k * 1000, m_div)
        Ib == RDiv(A * ExpNeg(km), SC)
        C == 9500 + RDiv(4000 * Sin(YearAngle(n, 100, 365)), SC)
        Idh == RDiv(C * Ib, ESC)
        Ibh == Mul(Ib, Sin(elevation_deg))
        GHI == Ibh + Idh
    IN  IF elevation_deg <= 0
        THEN [ extraterrestrial |-> 0, optical_depth |-> 0, air_mass |-> 0,
               dni |-> 0, diffuse_factor |-> 0, diffuse_horizontal |-> 0,
               global_horizontal |-> 0 ]
        ELSE [ extraterrestrial |-> A, optical_depth |-> k, air_mass |-> m,
               dni |-> Ib, diffuse_factor |-> C, diffuse_horizontal |-> Idh,
               global_horizontal |-> GHI ]

\* the default ground reflectance rho = 0.2, in 1/10000
RHO_DEFAULT == 2 * 1000

\* calculate_incident_irradiance with sin(sigma) and cos(sigma) exchanged in
\* the angle of incidence
calculate_incident_irradiance_swapped(beta_deg, phi_s_deg, sigma_deg, phi_c_deg, Ib, C) ==
    LET cos_theta == Max(0, Mul(Mul(Cos(beta_deg), Cos(phi_s_deg - phi_c_deg)), Cos(sigma_deg))
                            + Mul(Sin(beta_deg), Sin(sigma_deg)))
        Idc == RDiv(RDiv(C * Ib, ESC) * (SC + Cos(sigma_deg)), 2 * SC)
        Irc == RDiv(Mul(Mul(RHO_DEFAULT, Ib), Sin(beta_deg) + RDiv(C, 10))
                    * (SC - Cos(sigma_deg)), 2 * SC)
    IN  << Mul(Ib, cos_theta) + Idc + Irc, cos_theta >>

\* calculate_incident_irradiance(beta, phi_s, sigma, phi_c, Ib, C, rho=0.2):
\* << Ic, cos_theta >>
calculate_incident_irradiance(beta_deg, phi_s_deg, sigma_deg, phi_c_deg, Ib, C) ==
    LET cos_theta_raw == Mul(Mul(Cos(beta_deg), Cos(phi_s_deg - phi_c_deg)), Sin(sigma_deg))
                         + Mul(Sin(beta_deg), Cos(sigma_deg))
        cos_theta == Max(0, cos_theta_raw)
        Ibc == Mul(Ib, cos_theta)
        Idc == RDiv(RDiv(C * Ib, ESC) * (SC + Cos(sigma_deg)), 2 * SC)
        Irc == RDiv(Mul(Mul(RHO_DEFAULT, Ib), Sin(beta_deg) + RDiv(C, 10))
                    * (SC - Cos(sigma_deg)), 2 * SC)
        Ic == Ibc + Idc + Irc
    IN  << Ic, cos_theta >>

\* calculate_pv_performance without the max(0, .) of its return statement
calculate_pv_performance_unfloored(Ic, cos_theta, T_amb, efficiency) ==
    LET IAM == IF cos_theta <= 0 THEN 0
               ELSE RDiv((ESC - ExpNeg(RDiv(cos_theta * 100, 17))) * SC,
                         ESC - ExpNeg(RDiv(SC * 100, 17)))
        S_W_m2 == Mul(Ic, IAM)
        T_cell == T_amb + RDiv(S_W_m2, 32)
        P_ref_25C == Mul(efficiency, S_W_m2)
        P_out == Mul(P_ref_25C, SC - RDiv(45 * (T_cell - 2500), 100))
    IN  [ P_out |-> P_out,
          P_at_25C |-> P_ref_25C,
          Loss_Angular |-> Ic - S_W_m2,
          Loss_Thermal |-> P_ref_25C - P_out,
          T_cell |-> T_cell ]

\* calculate_pv_performance(Ic, cos_theta, T_amb, efficiency)
calculate_pv_performance(Ic, cos_theta, T_amb, efficiency) ==
    LET \* cos_theta / ALPHA_R and 1 / ALPHA_R with ALPHA_R = 0.17, in 1/10000
        IAM == IF cos_theta <= 0 THEN 0
               ELSE LET numerator == ESC - ExpNeg(RDiv(cos_theta * 100, 17))
                        denominator == ESC - ExpNeg(RDiv(SC * 100, 17))
                    IN  RDiv(numerator * SC, denominator)
        S_W_m2 == Mul(Ic, IAM)
        Loss_Angular == Ic - S_W_m2
        \* (NOCT - 20) / 0.8 * S / 1000 with NOCT = 45: S / 32 degrees per W/m2
        T_cell == T_amb + RDiv(S_W_m2, 32)
        P_ref_25C == Mul(efficiency, S_W_m2)
        \* 1 + ALPHA_P * (T_cell - 25) with ALPHA_P = -0.0045, in 1/10000
        temp_factor == SC - RDiv(45 * (T_cell - 2500), 100)
        P_out == Mul(P_ref_25C, temp_factor)
        Loss_Thermal == P_ref_25C - P_out
    IN  [ P_out |-> Max(0, P_out),
          P_at_25C |-> Max(0, P_ref_25C),
          Loss_Angular |-> Max(0, Loss_Angular),
          Loss_Thermal |-> Loss_Thermal,
          T_cell |-> T_cell ]

\* ------------------------------------------------------------------------
\* generate_annual_profile: the body of the (day, hour) loop
\* ------------------------------------------------------------------------

\* step 5 without the sign flip: the rotation angle is the hour angle whichever
\* way the axis points
RotationAngleUnflipped(k_y, omega) == omega

\* Modes 5 and 9, step 5: the rotation angle rho from the hour angle omega and
\* the northward component of the axis
RotationAngle(k_y, omega) == IF k_y >= 0 THEN omega ELSE -omega

\* Modes 5 and 9, steps 3 to 5 and the rotated normal: the axis vector k, the
\* noon normal n0, the rotation angle rho and n_rot as the code expands it
\* (vectors in 1/10000, East-North-Up)
RotatedNormal(axis_tilt, axis_azimuth, panel_azimuth_noon, omega) ==
    LET k_x == Mul(Cos(axis_tilt), Sin(axis_azimuth))
        k_y == Mul(Cos(axis_tilt), Cos(axis_azimuth))
        k_z == Sin(axis_tilt)
        n0_tilt == 9000 - axis_tilt
        n0_x == Mul(Cos(n0_tilt), Sin(panel_azimuth_noon))
        n0_y == Mul(Cos(n0_tilt), Cos(panel_azimuth_noon))
        n0_z == Sin(n0_tilt)
        rho == RotationAngle(k_y, omega)
        v_cross_x == Mul(k_y, n0_z) - Mul(k_z, n0_y)
        n_rot_x == Mul(v_cross_x, Sin(rho))
        n_rot_y == Mul(n0_y, Cos(rho))
        n_rot_z == Mul(n0_z, Cos(rho))
    IN  [ axis_tilt |-> axis_tilt, axis_azimuth |-> axis_azimuth,
          panel_azimuth_noon |-> panel_azimuth_noon,
          k_x |-> k_x, k_y |-> k_y, k_z |-> k_z,
          n0_x |-> n0_x, n0_y |-> n0_y, n0_z |-> n0_z,
          rho |-> rho, v_cross_x |-> v_cross_x,
          n_rot_x |-> n_rot_x, n_rot_y |-> n_rot_y, n_rot_z |-> n_rot_z ]

\* Modes 5 and 9, "Convert n_rot to Tilt (beta) and Azimuth (phi)": the panel
\* tilt handed to calculate_incident_irradiance when n_rot_z >= 0
ProfileTrackerTilt(n_rot_z) == ArcSin(n_rot_z)

\* Modes 5 and 9 without the "if n_rot_z < 0" branch: the orientation is
\* derived and the irradiance projected whichever way the normal points
ProfileTrackerNoGroundCheck(n, beta, phi_s, Ib, C) ==
    [ facing_ground |-> FALSE,
      beta_c |-> ProfileTrackerTilt(n.n_rot_z),
      phi_c |-> ArcTan2(n.n_rot_x, n.n_rot_y),
      cos_theta |-> calculate_incident_irradiance(beta, phi_s, ProfileTrackerTilt(n.n_rot_z),
                                                  ArcTan2(n.n_rot_x, n.n_rot_y), Ib, C)[2],
      Ic |-> calculate_incident_irradiance(beta, phi_s, ProfileTrackerTilt(n.n_rot_z),
                                           ArcTan2(n.n_rot_x, n.n_rot_y), Ib, C)[1] ]

\* Modes 5 and 9 from the rotated normal on: the tilt and azimuth of the
\* panel, cos_theta and Ic
ProfileTracker(n, beta, phi_s, Ib, C) ==
    IF n.n_rot_z < 0
    THEN [ facing_ground |-> TRUE, beta_c |-> 0, phi_c |-> 0, cos_theta |-> 0, Ic |-> 0 ]
    ELSE LET beta_c == ProfileTrackerTilt(n.n_rot_z)
             phi_c == ArcTan2(n.n_rot_x, n.n_rot_y)
             inc == calculate_incident_irradiance(beta, phi_s, beta_c, phi_c, Ib, C)
         IN  [ facing_ground |-> FALSE, beta_c |-> beta_c, phi_c |-> phi_c,
               cos_theta |-> inc[2], Ic |-> inc[1] ]

\* Mode 3 without the "abs(self.latitude) < 0.1" branch
ElevationTrackAzimuthNoEquatorBand(delta) ==
    IF Abs(latitude) >= 2345 THEN (IF latitude < 0 THEN 0 ELSE 18000)
    ELSE IF latitude < 0
         THEN (IF delta > 0 /\ Abs(delta) > Abs(latitude) THEN 0 ELSE 18000)
         ELSE (IF delta < 0 /\ Abs(delta) > Abs(latitude) THEN 18000 ELSE 0)

\* Mode 3: the azimuth of the 1-Axis Elevation panel
ElevationTrackAzimuth(delta) ==
    IF Abs(latitude) >= 2345 THEN (IF latitude < 0 THEN 0 ELSE 18000)
    ELSE IF Abs(latitude) < 10 THEN 0
    ELSE IF latitude < 0
         THEN (IF delta > 0 /\ Abs(delta) > Abs(latitude) THEN 0 ELSE 18000)
         ELSE (IF delta < 0 /\ Abs(delta) > Abs(latitude) THEN 18000 ELSE 0)

\* Mode 4 with the beam projected on a flat panel (Ib * sin(beta)) instead of
\* taken at normal incidence
TwoAxisIcFlatBeam(beta, Ib, C) ==
    Mul(Ib, Sin(beta))
    + RDiv(RDiv(C * Ib, ESC) * (SC + Sin(beta)), 2 * SC)
    + RDiv(Mul(Mul(RHO_DEFAULT, Ib), Sin(beta) + RDiv(C, 10)) * (SC - Sin(beta)), 2 * SC)

\* Mode 4: Ic of the 2-Axis panel
TwoAxisIc(beta, Ib, C) ==
    LET Ibc_2axis == Ib
        sin_beta == Sin(beta)
        Idc_2axis == RDiv(RDiv(C * Ib, ESC) * (SC + sin_beta), 2 * SC)
        Irc_2axis == RDiv(Mul(Mul(RHO_DEFAULT, Ib), sin_beta + RDiv(C, 10))
                          * (SC - sin_beta), 2 * SC)
    IN  Ibc_2axis + Idc_2axis + Irc_2axis

\* a dual-panel column that reports its first panel alone
AvgTakesFirst(a, b) == a

\* the mean of two panels, (a + b) / 2
Avg(a, b) == RDiv(a + b, 2)

\* the arguments of a generate_annual_profile call
ProfileArgs(efficiency, fixed_tilt, fixed_azimuth, optimal_tilt) ==
    [ efficiency |-> efficiency, fixed_tilt |-> fixed_tilt,
      fixed_azimuth |-> fixed_azimuth, optimal_tilt |-> optimal_tilt ]

\* the tilts and azimuths the call settles before the loop and in Mode 5
tilt_fixed(a) == IF a.fixed_tilt # None THEN a.fixed_tilt ELSE tilt
azimuth_fixed(a) == IF a.fixed_azimuth # None THEN a.fixed_azimuth ELSE azimuth
\* the azimuth tracker's tilt taking the default of the polar axis
tilt_1axis_az_as_polar(a) == IF a.optimal_tilt # None THEN a.optimal_tilt ELSE tilt_fixed(a)
tilt_1axis_az(a) == IF a.optimal_tilt # None THEN a.optimal_tilt ELSE Abs(latitude)
\* the polar axis tilt taking the default of the azimuth tracker
tilt_1axis_polar_as_az(a) == IF a.optimal_tilt # None THEN a.optimal_tilt ELSE Abs(latitude)
tilt_1axis_polar(a) == IF a.optimal_tilt # None THEN a.optimal_tilt ELSE tilt_fixed(a)
panel_azimuth_noon(a) ==
    IF a.fixed_azimuth # None THEN a.fixed_azimuth
    ELSE IF latitude < 0 THEN 0 ELSE 18000
axis_azimuth_polar(a) ==
    IF a.fixed_azimuth # None THEN a.fixed_azimuth + 18000
    ELSE IF latitude < 0 THEN 18000 ELSE 0

\* the skip test without its geom_next half: a step is dropped whenever the
\* sun is down at its start
StepSkippedAtStart(elevation, elevation_next) == elevation <= 0

\* "if geom['elevation'] <= 0 and geom_next['elevation'] <= 0: continue"
StepSkipped(elevation, elevation_next) == elevation <= 0 /\ elevation_next <= 0

\* the count taken only of steps that start with the sun up
CountsAsDaylightSunUp(elevation, elevation_next) == elevation > 0

\* "daylight_hours_count += 1": reached by every step the "continue" above it
\* does not skip
CountsAsDaylight(elevation, elevation_next) == ~StepSkipped(elevation, elevation_next)

\* One pass of the loop body for (day, hour), in the stages the code computes
\* it. LoopRow: the row appended to data, with geom, geom_next and the locals
\* of Modes 5 and 9; a column the row does not have (Fixed Custom without
\* fixed_tilt and fixed_azimuth) is None.
LoopRow(day, hour, a, geom, geom_next, irrad, T_amb, n_polar, polar, n_horiz, horiz_track, inc_horiz, inc_1axis_az, inc_1axis_el, Ic_2axis, inc_fixed, inc_e, inc_w, inc_n, inc_s, res_horiz, res_1axis_az, res_1axis_el, res_2axis, res_polar, res_horiz_track, res_fixed, res_e, res_w, res_n, res_s) ==
    LET has_fixed == a.fixed_tilt # None /\ a.fixed_azimuth # None
        Opt(r, f) == IF has_fixed THEN r[f] ELSE None
    IN  [ elevation |-> geom.elevation,
      elevation_next |-> geom_next.elevation,
      n_polar |-> n_polar, polar |-> polar,
      n_horiz |-> n_horiz, horiz_track |-> horiz_track,
      phi_c_el_track |-> ElevationTrackAzimuth(geom.declination),
      row |->
        [ Day |-> day, Hour |-> hour,
          Declination_deg |-> geom.declination,
          HourAngle_deg |-> geom.hour_angle,
          Elevation_deg |-> geom.elevation,
          Azimuth_deg |-> geom.azimuth,
          DNI_W_m2 |-> irrad.dni,
          GHI_W_m2 |-> irrad.global_horizontal,
          T_amb |-> T_amb,
          T_cell_Horiz |-> res_horiz.T_cell,
          T_cell_1Axis_Az |-> res_1axis_az.T_cell,
          T_cell_1Axis_Polar |-> res_polar.T_cell,
          T_cell_1Axis_Horiz |-> res_horiz_track.T_cell,
          T_cell_1Axis_El |-> res_1axis_el.T_cell,
          T_cell_2Axis |-> res_2axis.T_cell,
          T_cell_Fixed_EW |-> Avg(res_e.T_cell, res_w.T_cell),
          T_cell_Fixed_NS |-> Avg(res_n.T_cell, res_s.T_cell),
          I_Horizontal_W_m2 |-> inc_horiz[1],
          I_1Axis_Azimuth_W_m2 |-> inc_1axis_az[1],
          I_1Axis_Polar_W_m2 |-> polar.Ic,
          I_1Axis_Horizontal_W_m2 |-> horiz_track.Ic,
          I_1Axis_Elevation_W_m2 |-> inc_1axis_el[1],
          I_2Axis_W_m2 |-> Ic_2axis,
          I_Fixed_EW_W_m2 |-> Avg(inc_e[1], inc_w[1]),
          I_Fixed_NS_W_m2 |-> Avg(inc_n[1], inc_s[1]),
          P_Horiz |-> res_horiz.P_out,
          P_1Axis_Az |-> res_1axis_az.P_out,
          P_1Axis_Polar |-> res_polar.P_out,
          P_1Axis_Horiz |-> res_horiz_track.P_out,
          P_1Axis_El |-> res_1axis_el.P_out,
          P_2Axis |-> res_2axis.P_out,
          P_Fixed_EW |-> Avg(res_e.P_out, res_w.P_out),
          P_Fixed_NS |-> Avg(res_n.P_out, res_s.P_out),
          P_Horiz_25C |-> res_horiz.P_at_25C,
          P_1Axis_Az_25C |-> res_1axis_az.P_at_25C,
          P_1Axis_Polar_25C |-> res_polar.P_at_25C,
          P_1Axis_Horiz_25C |-> res_horiz_track.P_at_25C,
          P_1Axis_El_25C |-> res_1axis_el.P_at_25C,
          P_2Axis_25C |-> res_2axis.P_at_25C,
          P_Fixed_EW_25C |-> Avg(res_e.P_at_25C, res_w.P_at_25C),
          P_Fixed_NS_25C |-> Avg(res_n.P_at_25C, res_s.P_at_25C),
          Loss_Ang_Horiz_W_m2 |-> res_horiz.Loss_Angular,
          Loss_Ang_1Axis_Az_W_m2 |-> res_1axis_az.Loss_Angular,
          Loss_Ang_1Axis_Polar_W_m2 |-> res_polar.Loss_Angular,
          Loss_Ang_1Axis_Horizontal_W_m2 |-> res_horiz_track.Loss_Angular,
          Loss_Ang_1Axis_El_W_m2 |-> res_1axis_el.Loss_Angular,
          Loss_Ang_2Axis_W_m2 |-> res_2axis.Loss_Angular,
          Loss_Ang_Fixed_EW_W_m2 |-> Avg(res_e.Loss_Angular, res_w.Loss_Angular),
          Loss_Ang_Fixed_NS_W_m2 |-> Avg(res_n.Loss_Angular, res_s.Loss_Angular),
          Loss_Therm_Horiz_W_m2 |-> res_horiz.Loss_Thermal,
          Loss_Therm_1Axis_Az_W_m2 |-> res_1axis_az.Loss_Thermal,
          Loss_Therm_1Axis_Polar_W_m2 |-> res_polar.Loss_Thermal,
          Loss_Therm_1Axis_Horizontal_W_m2 |-> res_horiz_track.Loss_Thermal,
          Loss_Therm_1Axis_El_W_m2 |-> res_1axis_el.Loss_Thermal,
          Loss_Therm_2Axis_W_m2 |-> res_2axis.Loss_Thermal,
          Loss_Therm_Fixed_EW_W_m2 |-> Avg(res_e.Loss_Thermal, res_w.Loss_Thermal),
          Loss_Therm_Fixed_NS_W_m2 |-> Avg(res_n.Loss_Thermal, res_s.Loss_Thermal),
          I_Fixed_W_m2 |-> Opt(inc_fixed, 1),
          T_cell_Fixed |-> Opt(res_fixed, "T_cell"),
          P_Fixed |-> Opt(res_fixed, "P_out"),
          P_Fixed_25C |-> Opt(res_fixed, "P_at_25C"),
          Loss_Ang_Fixed_W_m2 |-> Opt(res_fixed, "Loss_Angular"),
          Loss_Therm_Fixed_W_m2 |-> Opt(res_fixed, "Loss_Thermal") ] ]

\* a mode's PV result with Loss_Thermal floored at 0 like the other results
ModePvFlooredLoss(inc, T_amb, a) ==
    [ calculate_pv_performance(inc[1], inc[2], T_amb, a.efficiency)
        EXCEPT !.Loss_Thermal = Max(0, @) ]

\* calculate_pv_performance of a mode's (Ic, cos_theta)
ModePv(inc, T_amb, a) == calculate_pv_performance(inc[1], inc[2], T_amb, a.efficiency)

\* LoopModes: each mode's PV result from its (Ic, cos_theta)
LoopModes(day, hour, a, geom, geom_next, irrad, T_amb, n_polar, polar, n_horiz, horiz_track, inc_horiz, inc_1axis_az, inc_1axis_el, Ic_2axis, inc_fixed, inc_e, inc_w, inc_n, inc_s) ==
    LoopRow(day, hour, a, geom, geom_next, irrad, T_amb, n_polar, polar, n_horiz, horiz_track,
            inc_horiz, inc_1axis_az, inc_1axis_el, Ic_2axis, inc_fixed, inc_e, inc_w, inc_n, inc_s,
            ModePv(inc_horiz, T_amb, a),
            ModePv(inc_1axis_az, T_amb, a),
            ModePv(inc_1axis_el, T_amb, a),
            calculate_pv_performance(Ic_2axis, SC, T_amb, a.efficiency),
            calculate_pv_performance(polar.Ic, polar.cos_theta, T_amb, a.efficiency),
            calculate_pv_performance(horiz_track.Ic, horiz_track.cos_theta, T_amb, a.efficiency),
            IF a.fixed_tilt # None /\ a.fixed_azimuth # None
            THEN ModePv(inc_fixed, T_amb, a) ELSE None,
            ModePv(inc_e, T_amb, a), ModePv(inc_w, T_amb, a),
            ModePv(inc_n, T_amb, a), ModePv(inc_s, T_amb, a))

\* calculate_incident_irradiance of a panel at (sigma, phi_c) for this step
ModeInc(geom, irrad, sigma, phi_c) ==
    calculate_incident_irradiance(geom.elevation, geom.azimuth, sigma, phi_c,
                                  irrad.dni, irrad.diffuse_factor)

\* LoopTrackers: each mode's (Ic, cos_theta) from the geometry, the
\* irradiance and the two rotated normals
LoopTrackers(day, hour, a, geom, geom_next, irrad, T_amb, n_polar, n_horiz) ==
    LoopModes(day, hour, a, geom, geom_next, irrad, T_amb,
              \* Mode 5: 1-Axis Polar, Mode 9: 1-Axis Horizontal
              n_polar,
              ProfileTracker(n_polar, geom.elevation, geom.azimuth, irrad.dni,
                             irrad.diffuse_factor),
              n_horiz,
              ProfileTracker(n_horiz, geom.elevation, geom.azimuth, irrad.dni,
                             irrad.diffuse_factor),
              \* Mode 1: Horizontal
              ModeInc(geom, irrad, 0, 0),
              \* Mode 2: 1-Axis Azimuth
              ModeInc(geom, irrad, tilt_1axis_az(a), geom.azimuth),
              \* Mode 3: 1-Axis Elevation
              ModeInc(geom, irrad, 9000 - geom.elevation,
                      ElevationTrackAzimuth(geom.declination)),
              \* Mode 4: 2-Axis
              TwoAxisIc(geom.elevation, irrad.dni, irrad.diffuse_factor),
              \* Mode 6: Fixed Custom
              IF a.fixed_tilt # None /\ a.fixed_azimuth # None
              THEN ModeInc(geom, irrad, a.fixed_tilt, a.fixed_azimuth) ELSE None,
              \* Mode 7: Fixed East-West, Mode 8: Fixed North-South
              ModeInc(geom, irrad, 4500, 9000), ModeInc(geom, irrad, 4500, 27000),
              ModeInc(geom, irrad, 4500, 0), ModeInc(geom, irrad, 4500, 18000))

\* LoopGeom: a skipped step computes the two geometries only; a kept one
\* goes on to the irradiance, T_amb and the rotated normals of Modes 5 and 9
LoopGeom(day, hour, a, geom, geom_next) ==
    IF StepSkipped(geom.elevation, geom_next.elevation)
    THEN [ elevation |-> geom.elevation, elevation_next |-> geom_next.elevation,
           row |-> [ Day |-> day, Hour |-> hour ] ]
    ELSE LoopTrackers(day, hour, a, geom, geom_next,
                      calculate_irradiance(day, geom.elevation),
                      calculate_ambient_temperature(day, hour),
                      RotatedNormal(tilt_1axis_polar(a), axis_azimuth_polar(a),
                                    panel_azimuth_noon(a), geom.hour_angle),
                      RotatedNormal(0, axis_azimuth_polar(a), panel_azimuth_noon(a),
                                    geom.hour_angle))

\* the loop body with a step that starts before sunrise stamped with the hour
\* at its end
LoopBodyStampedAtEnd(day, hour, a) ==
    LoopGeom(day, IF calculate_geometry(day, hour).elevation <= 0 THEN hour + 1 ELSE hour, a,
             calculate_geometry(day, hour), calculate_geometry(day, hour + 1))

\* the body of "for hour in range(24)" for (day, hour)
LoopBody(day, hour, a) ==
    LoopGeom(day, hour, a, calculate_geometry(day, hour), calculate_geometry(day, hour + 1))

\* ------------------------------------------------------------------------
\* generate_annual_profile: the totals map
\* ------------------------------------------------------------------------

\* the key of the totals literal and the DataFrame column it sums; an
\* Annual_* total is a column sum, in 1/100000 kWh/m2
SumPairs == {
    <<"Annual_GHI_Total_kWh_m2", "GHI_W_m2">>,
    <<"Annual_DNI_Total_kWh_m2", "DNI_W_m2">>,
    <<"Annual_I_Horizontal_kWh_m2", "I_Horizontal_W_m2">>,
    <<"Annual_I_1Axis_Azimuth_kWh_m2", "I_1Axis_Azimuth_W_m2">>,
    <<"Annual_I_1Axis_Polar_kWh_m2", "I_1Axis_Polar_W_m2">>,
    <<"Annual_I_1Axis_Horizontal_kWh_m2", "I_1Axis_Horizontal_W_m2">>,
    <<"Annual_I_1Axis_Elevation_kWh_m2", "I_1Axis_Elevation_W_m2">>,
    <<"Annual_I_2Axis_kWh_m2", "I_2Axis_W_m2">>,
    <<"Annual_I_Fixed_EW_kWh_m2", "I_Fixed_EW_W_m2">>,
    <<"Annual_I_Fixed_NS_kWh_m2", "I_Fixed_NS_W_m2">>,
    <<"Annual_Yield_Horizontal_kWh_m2", "P_Horiz">>,
    <<"Annual_Yield_1Axis_Azimuth_kWh_m2", "P_1Axis_Az">>,
    <<"Annual_Yield_1Axis_Polar_kWh_m2", "P_1Axis_Polar">>,
    <<"Annual_Yield_1Axis_Horizontal_kWh_m2", "P_1Axis_Horiz">>,
    <<"Annual_Yield_1Axis_Elevation_kWh_m2", "P_1Axis_El">>,
    <<"Annual_Yield_2Axis_kWh_m2", "P_2Axis">>,
    <<"Annual_Yield_Fixed_EW_kWh_m2", "P_Fixed_EW">>,
    <<"Annual_Yield_Fixed_NS_kWh_m2", "P_Fixed_NS">>,
    <<"Annual_Yield_Cooled_Horizontal_kWh_m2", "P_Horiz_25C">>,
    <<"Annual_Yield_Cooled_1Axis_Azimuth_kWh_m2", "P_1Axis_Az_25C">>,
    <<"Annual_Yield_Cooled_1Axis_Polar_kWh_m2", "P_1Axis_Polar_25C">>,
    <<"Annual_Yield_Cooled_1Axis_Horizontal_kWh_m2", "P_1Axis_Horiz_25C">>,
    <<"Annual_Yield_Cooled_1Axis_Elevation_kWh_m2", "P_1Axis_El_25C">>,
    <<"Annual_Yield_Cooled_2Axis_kWh_m2", "P_2Axis_25C">>,
    <<"Annual_Yield_Cooled_Fixed_EW_kWh_m2", "P_Fixed_EW_25C">>,
    <<"Annual_Yield_Cooled_Fixed_NS_kWh_m2", "P_Fixed_NS_25C">>,
    <<"Annual_Loss_Ang_Horiz_kWh_m2", "Loss_Ang_Horiz_W_m2">>,
    <<"Annual_Loss_Ang_1Axis_Az_kWh_m2", "Loss_Ang_1Axis_Az_W_m2">>,
    <<"Annual_Loss_Ang_1Axis_Polar_kWh_m2", "Loss_Ang_1Axis_Polar_W_m2">>,
    <<"Annual_Loss_Ang_1Axis_Horizontal_kWh_m2", "Loss_Ang_1Axis_Horizontal_W_m2">>,
    <<"Annual_Loss_Ang_1Axis_El_kWh_m2", "Loss_Ang_1Axis_El_W_m2">>,
    <<"Annual_Loss_Ang_2Axis_kWh_m2", "Loss_Ang_2Axis_W_m2">>,
    <<"Annual_Loss_Ang_Fixed_EW_kWh_m2", "Loss_Ang_Fixed_EW_W_m2">>,
    <<"Annual_Loss_Ang_Fixed_NS_kWh_m2", "Loss_Ang_Fixed_NS_W_m2">>,
    <<"Annual_Loss_Therm_Horiz_kWh_m2", "Loss_Therm_Horiz_W_m2">>,
    <<"Annual_Loss_Therm_1Axis_Az_kWh_m2", "Loss_Therm_1Axis_Az_W_m2">>,
    <<"Annual_Loss_Therm_1Axis_Polar_kWh_m2", "Loss_Therm_1Axis_Polar_W_m2">>,
    <<"Annual_Loss_Therm_1Axis_Horizontal_kWh_m2", "Loss_Therm_1Axis_Horizontal_W_m2">>,
    <<"Annual_Loss_Therm_1Axis_El_kWh_m2", "Loss_Therm_1Axis_El_W_m2">>,
    <<"Annual_Loss_Therm_2Axis_kWh_m2", "Loss_Therm_2Axis_W_m2">>,
    <<"Annual_Loss_Therm_Fixed_EW_kWh_m2", "Loss_Therm_Fixed_EW_W_m2">>,
    <<"Annual_Loss_Therm_Fixed_NS_kWh_m2", "Loss_Therm_Fixed_NS_W_m2">> }

\* the totals added when fixed_tilt is not None
FixedSumPairs == {
    <<"Annual_I_Fixed_kWh_m2", "I_Fixed_W_m2">>,
    <<"Annual_Yield_Fixed_kWh_m2", "P_Fixed">>,
    <<"Annual_Loss_Ang_Fixed_kWh_m2", "Loss_Ang_Fixed_W_m2">>,
    <<"Annual_Loss_Therm_Fixed_kWh_m2", "Loss_Therm_Fixed_W_m2">>,
    <<"Annual_Yield_Cooled_Fixed_kWh_m2", "P_Fixed_25C">> }

\* the Ratio_Yield_* keys of the totals literal and the power column of each
RatioPairs == {
    <<"Ratio_Yield_Horizontal_vs_2Axis_Percent", "P_Horiz">>,
    <<"Ratio_Yield_1Axis_Azimuth_vs_2Axis_Percent", "P_1Axis_Az">>,
    <<"Ratio_Yield_1Axis_Polar_vs_2Axis_Percent", "P_1Axis_Polar">>,
    <<"Ratio_Yield_1Axis_Elevation_vs_2Axis_Percent", "P_1Axis_El">>,
    <<"Ratio_Yield_Fixed_vs_2Axis_Percent", "P_Fixed">>,
    <<"Ratio_Yield_Fixed_EW_vs_2Axis_Percent", "P_Fixed_EW">>,
    <<"Ratio_Yield_Fixed_NS_vs_2Axis_Percent", "P_Fixed_NS">> }

\* the CF_Overall_* keys, in the order the code sets them, and the total each reads
CFOverallPairs == {
    <<"CF_Overall_Horizontal", "Annual_Yield_Horizontal_kWh_m2">>,
    <<"CF_Overall_1Axis_Azimuth", "Annual_Yield_1Axis_Azimuth_kWh_m2">>,
    <<"CF_Overall_1Axis_Polar", "Annual_Yield_1Axis_Polar_kWh_m2">>,
    <<"CF_Overall_1Axis_Horizontal", "Annual_Yield_1Axis_Horizontal_kWh_m2">>,
    <<"CF_Overall_1Axis_Elevation", "Annual_Yield_1Axis_Elevation_kWh_m2">>,
    <<"CF_Overall_Fixed", "Annual_Yield_Fixed_kWh_m2">>,
    <<"CF_Overall_2Axis", "Annual_Yield_2Axis_kWh_m2">>,
    <<"CF_Overall_Fixed_EW", "Annual_Yield_Fixed_EW_kWh_m2">>,
    <<"CF_Overall_Fixed_NS", "Annual_Yield_Fixed_NS_kWh_m2">> }

\* the CF_Daylight_* keys and the total each reads
CFDaylightPairs == {
    <<"CF_Daylight_Horizontal", "Annual_Yield_Horizontal_kWh_m2">>,
    <<"CF_Daylight_1Axis_Azimuth", "Annual_Yield_1Axis_Azimuth_kWh_m2">>,
    <<"CF_Daylight_1Axis_Polar", "Annual_Yield_1Axis_Polar_kWh_m2">>,
    <<"CF_Daylight_1Axis_Horizontal", "Annual_Yield_1Axis_Horizontal_kWh_m2">>,
    <<"CF_Daylight_1Axis_Elevation", "Annual_Yield_1Axis_Elevation_kWh_m2">>,
    <<"CF_Daylight_Fixed", "Annual_Yield_Fixed_kWh_m2">>,
    <<"CF_Daylight_2Axis", "Annual_Yield_2Axis_kWh_m2">>,
    <<"CF_Daylight_Fixed_EW", "Annual_Yield_Fixed_EW_kWh_m2">>,
    <<"CF_Daylight_Fixed_NS", "Annual_Yield_Fixed_NS_kWh_m2">> }

\* the columns of every row, and those only a Fixed Custom row has
FixedColumns == { p[2] : p \in FixedSumPairs }
SumColumns == { p[2] : p \in SumPairs } \cup FixedColumns

Second(pairs, key) == (CHOOSE p \in pairs : p[1] = key)[2]
Keys(pairs) == { p[1] : p \in pairs }

total_hours == 8760

\* x / y * 100 of two column sums, in 1/10 percent
RatioPercent(x, y) == RDiv(RDiv(x, 1000) * 1000, RDiv(y, 1000))

\* calc_cf with the yield taken in Wh/m2 (the column sum, not divided by 1000)
calc_cf_watt_hours(yield_val, hours, efficiency) ==
    IF hours > 0 /\ efficiency > 0
    THEN 1000 * RDiv(RDiv(yield_val, 100) * 1000, RDiv(efficiency * hours, 100))
    ELSE 0

\* calc_cf(yield_val, hours), in 1/100 percent
calc_cf(yield_val, hours, efficiency) ==
    IF hours > 0 /\ efficiency > 0
    THEN RDiv(RDiv(yield_val, 100) * 1000, RDiv(efficiency * hours, 100))
    ELSE 0

\* ------------------------------------------------------------------------
\* generate_annual_profile as a state machine: one step per (day, hour)
\* ------------------------------------------------------------------------

VARIABLES
    pc,                    \* "ready" | "loop" | "totals" | "returned" | "raised"
    args,                  \* the arguments of the call in progress
    day, hour,             \* the loop counters
    cur,                   \* what the last pass of the loop body computed
    kept,                  \* whether the last pass appended its row to data
    n_rows,                \* len(data)
    daylight_hours_count,
    sums,                  \* the sum of every summed column over data
    totals,                \* the totals map, once built
    error                  \* the exception raised, or "none"

profile_vars == << pc, args, day, hour, cur, kept, n_rows, daylight_hours_count,
                   sums, totals, error >>

\* the optimal-tilt searches (calculate_optimal_tilt and the two tracker
\* variants): the call in progress and its locals
VARIABLES
    spc,                      \* "ready" | "dataset" | "sweep" | "final" | "returned"
    method,                   \* which search: "fixed" | "1axis_azimuth" | "1axis_polar"
    optimize_electrical,
    s_efficiency,
    s_day, s_hour,            \* the counters of the dataset loop
    daylight_data,
    cand_tilt,                \* the loop variable of the sweep (tilt, axis_tilt)
    best_tilt,
    max_optimization_value,
    result                    \* << best_tilt, total_electrical_yield >>, once returned

search_vars == << spc, method, optimize_electrical, s_efficiency, s_day, s_hour,
                  daylight_data, cand_tilt, best_tilt, max_optimization_value, result >>

\* a direct call of one of the model's calculation methods: the method and
\* its arguments, and the value it returned
VARIABLES
    query,                    \* [ fn, in ]
    answer,
    history                   \* the calls the caller has made so far, each
                              \* with what it returned or raised

query_vars == << query, answer, history >>

\* no direct call made
NoQuery == [ fn |-> "none", in |-> << >> ]

vars == << model_vars, profile_vars, search_vars, query_vars >>

last_day == 365

\* the days of range(1, 366) the model visits: DaysPerYear of them, evenly
\* spaced from day 1
DaysPerYear == 12
DayStep == last_day \div DaysPerYear

NoArgs == ProfileArgs(None, None, None, None)
NoStep == [ elevation |-> None, elevation_next |-> None, row |-> [ Day |-> 0, Hour |-> 0 ] ]
NoTotals == [ k \in {} |-> 0 ]

ProfileIdle ==
    /\ pc = "ready"
    /\ args = NoArgs
    /\ day = 0 /\ hour = 0
    /\ cur = NoStep
    /\ kept = FALSE
    /\ n_rows = 0
    /\ daylight_hours_count = 0
    /\ sums = [ c \in SumColumns |-> 0 ]
    /\ totals = NoTotals
    /\ error = "none"

\* the call, had it kept its tilt and azimuth in self.tilt and self.azimuth
\* instead of the locals tilt_fixed and azimuth_fixed
CallProfileStoringTilt(a) ==
    /\ pc = "ready" /\ spc = "ready" /\ query = NoQuery
    /\ pc' = "loop"
    /\ args' = a
    /\ day' = 1 /\ hour' = 0
    /\ tilt' = tilt_fixed(a)
    /\ azimuth' = azimuth_fixed(a)
    /\ UNCHANGED << latitude, longitude, local_time_meridian, search_vars, query_vars,
                    cur, kept, n_rows, daylight_hours_count, sums, totals, error >>

\* the call: data = [], the tilts settled, the counters cleared, day = 1
CallProfile(a) ==
    /\ pc = "ready" /\ spc = "ready" /\ query = NoQuery
    /\ pc' = "loop"
    /\ args' = a
    /\ day' = 1 /\ hour' = 0
    /\ UNCHANGED << model_vars, search_vars, query_vars, cur, kept, n_rows, daylight_hours_count,
                    sums, totals, error >>

\* one pass of "for day in range(1, 366): for hour in range(24)"; the model
\* visits every DayStep-th day of the range
Step ==
    /\ pc = "loop"
    /\ \E b \in { LoopBody(day, hour, args) } :
         \E skip \in { StepSkipped(b.elevation, b.elevation_next) } :
             /\ kept' = ~skip
             /\ cur' = b
             /\ n_rows' = IF skip THEN n_rows ELSE n_rows + 1
             /\ daylight_hours_count' =
                    IF CountsAsDaylight(b.elevation, b.elevation_next)
                    THEN daylight_hours_count + 1 ELSE daylight_hours_count
             /\ sums' = IF skip THEN sums
                        ELSE [ c \in SumColumns |->
                                 IF b.row[c] = None THEN sums[c] ELSE sums[c] + b.row[c] ]
    /\ IF hour < 23 THEN hour' = hour + 1 /\ day' = day /\ pc' = pc
       ELSE /\ hour' = 0
            /\ day' = day + DayStep
            /\ pc' = IF day + DayStep <= last_day THEN "loop" ELSE "totals"
    /\ UNCHANGED << model_vars, search_vars, query_vars, args, totals, error >>

\* whether df has the Fixed Custom columns: some row was updated with them
HasFixedColumns == n_rows > 0 /\ args.fixed_tilt # None /\ args.fixed_azimuth # None

\* whether building the totals raises KeyError: df['P_2Axis'] of an empty
\* frame, df['P_Fixed'] in the totals literal, df['I_Fixed_W_m2'] under
\* "if fixed_tilt is not None", totals['Annual_Yield_Fixed_kWh_m2'] in calc_cf
TotalsKeyError ==
    \/ n_rows = 0
    \/ sums["P_2Axis"] > 0 /\ ~HasFixedColumns
    \/ args.fixed_tilt # None /\ ~HasFixedColumns
    \/ args.fixed_tilt = None

\* the totals map of a call that reaches "return df, totals"
TotalsMap ==
    LET annual_2axis_yield == sums["P_2Axis"]
        fixed_pairs == IF args.fixed_tilt # None THEN FixedSumPairs ELSE {}
        annual == SumPairs \cup fixed_pairs
        Total(k) == sums[Second(annual, k)]
        keys == Keys(annual) \cup Keys(RatioPairs) \cup Keys(CFOverallPairs)
                \cup Keys(CFDaylightPairs) \cup { "Daylight_Hours" }
    IN  [ k \in keys |->
            IF k \in Keys(annual) THEN Total(k)
            ELSE IF k \in Keys(RatioPairs)
                 THEN (IF annual_2axis_yield > 0
                       THEN RatioPercent(sums[Second(RatioPairs, k)], annual_2axis_yield)
                       ELSE 0)
            ELSE IF k \in Keys(CFOverallPairs)
                 THEN calc_cf(Total(Second(CFOverallPairs, k)), total_hours, args.efficiency)
            ELSE IF k \in Keys(CFDaylightPairs)
                 THEN calc_cf(Total(Second(CFDaylightPairs, k)), daylight_hours_count,
                              args.efficiency)
            ELSE daylight_hours_count ]

\* "df = pd.DataFrame(data)" to "return df, totals"
BuildTotals ==
    /\ pc = "totals"
    /\ IF TotalsKeyError
       THEN /\ pc' = "raised"
            /\ error' = "KeyError"
            /\ totals' = totals
       ELSE /\ pc' = "returned"
            /\ error' = error
            /\ totals' = TotalsMap
    /\ UNCHANGED << model_vars, search_vars, query_vars, args, day, hour, cur, kept, n_rows,
                    daylight_hours_count, sums >>

\* ------------------------------------------------------------------------
\* The optimal-tilt searches: calculate_optimal_tilt (solar_model.py),
\* calculate_optimal_tilt_1axis_azimuth and calculate_optimal_tilt_1axis_polar
\* (tracker_optimal_tilt_methods.py). Candidate tilts are whole degrees; the
\* objective and the yield are sums of centi-W/m2 over the dataset.
\* ------------------------------------------------------------------------

Methods == { "fixed", "1axis_azimuth", "1axis_polar" }

NoResult == << None, None >>

SearchIdle ==
    /\ spc = "ready"
    /\ method = "none"
    /\ optimize_electrical = FALSE
    /\ s_efficiency = None
    /\ s_day = 0 /\ s_hour = 0
    /\ daylight_data = << >>
    /\ cand_tilt = 0
    /\ best_tilt = 0
    /\ max_optimization_value = 0
    /\ result = NoResult

\* int(lat_abs)
IntLatAbs == Abs(latitude) \div 100
\* range(start_tilt, end_tilt)
start_tilt == Max(0, IntLatAbs - 5)
end_tilt == IntLatAbs + 6

\* the call: daylight_data = [], day = 1, hour = 0
CallSearch(m, electrical, efficiency) ==
    /\ spc = "ready" /\ pc = "ready" /\ query = NoQuery
    /\ spc' = "dataset"
    /\ method' = m
    /\ optimize_electrical' = electrical
    /\ s_efficiency' = efficiency
    /\ s_day' = 1 /\ s_hour' = 0
    /\ UNCHANGED << model_vars, profile_vars, query_vars, daylight_data, cand_tilt, best_tilt,
                    max_optimization_value, result >>

\* the entry with T_amb left at the 25 degrees calculate_pv_performance
\* defaults to
DaylightEntryDefaultAmbient(d, h, geom, irrad) ==
    [ day |-> d, hour |-> h, H_deg |-> geom.hour_angle,
      beta |-> geom.elevation, phi_s |-> geom.azimuth,
      Ib |-> irrad.dni, C |-> irrad.diffuse_factor,
      T_amb |-> 2500 ]

\* the entry appended to daylight_data for a daylight (day, hour)
DaylightEntry(d, h, geom, irrad) ==
    [ day |-> d, hour |-> h, H_deg |-> geom.hour_angle,
      beta |-> geom.elevation, phi_s |-> geom.azimuth,
      Ib |-> irrad.dni, C |-> irrad.diffuse_factor,
      T_amb |-> calculate_ambient_temperature(d, h) ]

\* daylight_data after the pass for (d, h): "if geom['elevation'] <= 0: continue"
DatasetAfter(data, d, h, geom) ==
    IF geom.elevation <= 0 THEN data
    ELSE Append(data, DaylightEntry(d, h, geom, calculate_irradiance(d, geom.elevation)))

\* one pass of the pre-calculation loop; after the last one, "best_tilt = 0,
\* max_optimization_value = 0" and the sweep starts at start_tilt
DatasetStep ==
    /\ spc = "dataset"
    /\ daylight_data' = DatasetAfter(daylight_data, s_day, s_hour,
                                     calculate_geometry(s_day, s_hour))
    /\ IF s_hour < 23 THEN s_hour' = s_hour + 1 /\ s_day' = s_day /\ spc' = spc
       ELSE /\ s_hour' = 0
            /\ s_day' = s_day + DayStep
            /\ spc' = IF s_day + DayStep <= last_day THEN "dataset" ELSE "sweep"
    /\ cand_tilt' = start_tilt
    /\ best_tilt' = 0
    /\ max_optimization_value' = 0
    /\ UNCHANGED << model_vars, profile_vars, query_vars, method, optimize_electrical, s_efficiency,
                    result >>

\* the polar search's panel for the rotated normal n: nothing ("continue")
\* when n_rot_z < 0, else << sigma_polar, phi_c_polar >>
PolarSearchOrientation(n) ==
    IF n.n_rot_z < 0 THEN << None, None >>
    ELSE << ArcCos(Clip(n.n_rot_z, -SC, SC)), ArcTan2(n.n_rot_x, n.n_rot_y) >>

\* << tilt, azimuth >> of the panel a search hands to
\* calculate_incident_irradiance for candidate t (degrees) and entry d
SearchOrientation(m, t, d) ==
    IF m = "fixed" THEN << 100 * t, IF latitude < 0 THEN 0 ELSE 18000 >>
    ELSE IF m = "1axis_azimuth" THEN << 100 * t, d.phi_s >>
    ELSE PolarSearchOrientation(
             RotatedNormal(100 * t, IF latitude < 0 THEN 18000 ELSE 0,
                           IF latitude < 0 THEN 0 ELSE 18000, d.H_deg))

\* what entry d adds to a total for a panel with (Ic, cos_theta) = inc
EntryValueOf(inc, d, electrical, efficiency) ==
    IF electrical
    THEN calculate_pv_performance(inc[1], inc[2], d.T_amb, efficiency).P_out
    ELSE inc[1]

\* what entry d adds to a total for the panel o
EntryValue(o, d, electrical, efficiency) ==
    IF o[1] = None THEN 0
    ELSE EntryValueOf(calculate_incident_irradiance(d.beta, d.phi_s, o[1], o[2], d.Ib, d.C),
                      d, electrical, efficiency)

\* "for data in daylight_data": the total over entries lo .. hi, summed by
\* halves
RECURSIVE TotalOver(_, _, _, _, _, _, _)
TotalOver(m, t, data, lo, hi, electrical, efficiency) ==
    IF lo > hi THEN 0
    ELSE IF lo = hi
         THEN EntryValue(SearchOrientation(m, t, data[lo]), data[lo], electrical, efficiency)
         ELSE TotalOver(m, t, data, lo, (lo + hi) \div 2, electrical, efficiency)
              + TotalOver(m, t, data, ((lo + hi) \div 2) + 1, hi, electrical, efficiency)

\* total_value of candidate t over the whole of daylight_data
TotalValue(m, t, data, electrical, efficiency) ==
    TotalOver(m, t, data, 1, Len(data), electrical, efficiency)

\* the update test with the running maximum ignored: any candidate with a
\* positive total replaces the best so far
ImprovesOnZero(total_value, max_value) == total_value > 0

\* "if total_value > max_optimization_value"
Improves(total_value, max_value) == total_value > max_value

\* the sweep's locals after candidate t scored total_value
SweepUpdate(t, total_value) ==
    /\ best_tilt' = IF Improves(total_value, max_optimization_value) THEN t ELSE best_tilt
    /\ max_optimization_value' = IF Improves(total_value, max_optimization_value)
                                 THEN total_value ELSE max_optimization_value

\* one pass of "for tilt in range(start_tilt, end_tilt)"
TryTilt ==
    /\ spc = "sweep"
    /\ cand_tilt < end_tilt
    /\ SweepUpdate(cand_tilt, TotalValue(method, cand_tilt, daylight_data,
                                         optimize_electrical, s_efficiency))
    /\ cand_tilt' = cand_tilt + 1
    /\ spc' = IF cand_tilt + 1 < end_tilt THEN "sweep" ELSE "final"
    /\ UNCHANGED << model_vars, profile_vars, query_vars, method, optimize_electrical, s_efficiency,
                    s_day, s_hour, daylight_data, result >>

\* the second return value taken from the sweep's objective instead of the
\* final electrical pass
FinalYieldIsObjective(m, t, data, efficiency, max_value) == max_value

\* total_electrical_yield: the electrical total at the winning tilt
FinalYield(m, t, data, efficiency, max_value) == TotalValue(m, t, data, TRUE, efficiency)

\* "return best_tilt, total_electrical_yield"
Finish ==
    /\ spc = "final"
    /\ spc' = "returned"
    /\ result' = << best_tilt, FinalYield(method, best_tilt, daylight_data, s_efficiency,
                                          max_optimization_value) >>
    /\ UNCHANGED << model_vars, profile_vars, query_vars, method, optimize_electrical, s_efficiency,
                    s_day, s_hour, daylight_data, cand_tilt, best_tilt,
                    max_optimization_value >>

\* ------------------------------------------------------------------------
\* Direct calls of calculate_incident_irradiance and calculate_pv_performance
\* ------------------------------------------------------------------------

QueryIdle ==
    /\ query = NoQuery
    /\ answer = None
    /\ history = << >>

\* model.calculate_incident_irradiance(beta_deg, phi_s_deg, sigma_deg, phi_c_deg, Ib, C)
QueryIncident(beta_deg, phi_s_deg, sigma_deg, phi_c_deg, Ib, C) ==
    /\ pc = "ready" /\ spc = "ready" /\ query = NoQuery
    /\ query' = [ fn |-> "calculate_incident_irradiance",
                  in |-> << beta_deg, phi_s_deg, sigma_deg, phi_c_deg, Ib, C >> ]
    /\ answer' = calculate_incident_irradiance(beta_deg, phi_s_deg, sigma_deg, phi_c_deg, Ib, C)
    /\ UNCHANGED << model_vars, profile_vars, search_vars, history >>

\* model.calculate_pv_performance(Ic, cos_theta, T_amb=T_amb, efficiency=efficiency)
QueryPv(Ic, cos_theta, T_amb, efficiency) ==
    /\ pc = "ready" /\ spc = "ready" /\ query = NoQuery
    /\ query' = [ fn |-> "calculate_pv_performance",
                  in |-> << Ic, cos_theta, T_amb, efficiency >> ]
    /\ answer' = calculate_pv_performance(Ic, cos_theta, T_amb, efficiency)
    /\ UNCHANGED << model_vars, profile_vars, search_vars, history >>

\* model.calculate_geometry(day_of_year, hour)
QueryGeometry(day_of_year, h) ==
    /\ pc = "ready" /\ spc = "ready" /\ query = NoQuery
    /\ query' = [ fn |-> "calculate_geometry", in |-> << day_of_year, h >> ]
    /\ answer' = calculate_geometry(day_of_year, h)
    /\ UNCHANGED << model_vars, profile_vars, search_vars, history >>

\* model.calculate_geometry(day_of_year, hour) with a float hour, given as the
\* clock time in 1/100 minute
QueryGeometryClock(day_of_year, clock) ==
    /\ pc = "ready" /\ spc = "ready" /\ query = NoQuery
    /\ query' = [ fn |-> "calculate_geometry", in |-> << day_of_year, clock >> ]
    /\ answer' = calculate_geometry_clock(day_of_year, clock)
    /\ UNCHANGED << model_vars, profile_vars, search_vars, history >>

\* model.calculate_ambient_temperature(day_of_year, hour)
QueryAmbient(day_of_year, h) ==
    /\ pc = "ready" /\ spc = "ready" /\ query = NoQuery
    /\ query' = [ fn |-> "calculate_ambient_temperature", in |-> << day_of_year, h >> ]
    /\ answer' = calculate_ambient_temperature(day_of_year, h)
    /\ UNCHANGED << model_vars, profile_vars, search_vars, history >>

\* model.generate_annual_profile(..., time_step_minutes=ts), as
\* verify_statistics_fix.py, debug_time_steps.py and solar_app.py call it: the
\* signature has no such parameter, so binding the arguments raises TypeError
\* before the body runs
CallProfileWithTimeStep(a, time_step_minutes) ==
    /\ pc = "ready" /\ spc = "ready" /\ query = NoQuery
    /\ query' = [ fn |-> "generate_annual_profile",
                  in |-> << a, time_step_minutes >> ]
    /\ answer' = None
    /\ args' = a
    /\ pc' = "raised"
    /\ error' = "TypeError"
    /\ UNCHANGED << model_vars, search_vars, history, day, hour, cur, kept, n_rows,
                    daylight_hours_count, sums, totals >>

\* ------------------------------------------------------------------------
\* A caller that makes one call after another on the same model, as
\* debug_dual_panel.py does
\* ------------------------------------------------------------------------

\* the number of calls the caller gets back before its last one
MaxHistory == 2

\* a call has returned or raised and the caller has not gone on
Finished == pc \in { "returned", "raised" } \/ spc = "returned" \/ query # NoQuery

\* the call that has finished: the method and its arguments
CurrentCall ==
    IF query # NoQuery THEN query
    ELSE IF spc = "returned"
    THEN [ fn |-> method, in |-> << optimize_electrical, s_efficiency >> ]
    ELSE [ fn |-> "generate_annual_profile", in |-> << args >> ]

\* what it gave the caller: the return value or the exception
CurrentResult ==
    IF query # NoQuery THEN << answer, error >>
    ELSE IF spc = "returned" THEN result
    ELSE [ error |-> error, n_rows |-> n_rows, totals |-> totals ]

\* the caller takes the result and is ready for its next call; the locals of
\* the finished call are gone
ReturnToCaller ==
    /\ Finished
    /\ Len(history) < MaxHistory
    /\ history' = Append(history, [ call |-> CurrentCall, result |-> CurrentResult ])
    /\ query' = NoQuery /\ answer' = None
    /\ pc' = "ready" /\ args' = NoArgs
    /\ day' = 0 /\ hour' = 0
    /\ cur' = NoStep /\ kept' = FALSE
    /\ n_rows' = 0 /\ daylight_hours_count' = 0
    /\ sums' = [ c \in SumColumns |-> 0 ]
    /\ totals' = NoTotals /\ error' = "none"
    /\ spc' = "ready" /\ method' = "none"
    /\ optimize_electrical' = FALSE /\ s_efficiency' = None
    /\ s_day' = 0 /\ s_hour' = 0
    /\ daylight_data' = << >>
    /\ cand_tilt' = 0 /\ best_tilt' = 0
    /\ max_optimization_value' = 0
    /\ result' = NoResult
    /\ UNCHANGED model_vars

\* the caller runs the profile of the fixed panel at a tilt calculate_optimal_tilt
\* has returned to it: generate_annual_profile(fixed_tilt=float(tilt),
\* fixed_azimuth=equator-facing, efficiency=efficiency)
CallProfileAtOptimum ==
    \E i \in 1..Len(history) :
        /\ history[i].call.fn = "fixed"
        /\ CallProfile(ProfileArgs(history[i].call.in[2], 100 * history[i].result[1],
                                   IF latitude < 0 THEN 0 ELSE 18000, None))

\* ------------------------------------------------------------------------
\* The annual run: SolarModel(latitude, longitude) at one of the sites, then
\* generate_annual_profile with one of the argument lists callers use
\* ------------------------------------------------------------------------

\* (latitude, longitude) in centi-degrees; the first is the default of __init__
Sites == << <<0 - 3205, 11589>>, <<4570, 250>>, <<0, 0>>, <<0 - 1246, 13084>>,
           <<1048, 0 - 6690>>, <<6030, 0 - 1050>> >>
NSites == 5

EFFICIENCY_DEFAULT == 2 * 1000

\* the call of __main__ (all defaults), two Fixed Custom calls (one facing
\* the equator with an optimal tilt, one facing 45 degrees off North), and a
\* call that gives fixed_tilt alone
CallArgs == << ProfileArgs(EFFICIENCY_DEFAULT, None, None, None),
               ProfileArgs(1400, 3200, 0, 3000),
               ProfileArgs(EFFICIENCY_DEFAULT, 3000, 4500, None),
               ProfileArgs(EFFICIENCY_DEFAULT, 3000, None, None) >>
NCalls == 3

Init ==
    /\ \E i \in 1..NSites : SolarModelInit(Sites[i][1], Sites[i][2])
    /\ ProfileIdle
    /\ SearchIdle
    /\ QueryIdle

Next ==
    \/ \E i \in 1..NCalls : CallProfile(CallArgs[i])
    \/ Step
    \/ BuildTotals

Spec == Init /\ [][Next]_vars

\* ------------------------------------------------------------------------
\* The searches: SolarModel(latitude, longitude) at one of the sites, then one
\* of the three searches, geometric or electrical
\* ------------------------------------------------------------------------

TiltSites == << <<0 - 3205, 11589>>, <<7890, 1500>>, <<320, 0 - 7800>>, <<6030, 2490>> >>
NTiltSites == 2

\* the efficiencies the callers pass: the default 0.2 and 0.14
SearchEfficiencies == { EFFICIENCY_DEFAULT, 1400 }

InitTilt ==
    /\ \E i \in 1..NTiltSites : SolarModelInit(TiltSites[i][1], TiltSites[i][2])
    /\ ProfileIdle
    /\ SearchIdle
    /\ QueryIdle

NextTilt ==
    \/ \E m \in Methods, electrical \in BOOLEAN, efficiency \in SearchEfficiencies :
           CallSearch(m, electrical, efficiency)
    \/ DatasetStep
    \/ TryTilt
    \/ Finish

SpecTilt == InitTilt /\ [][NextTilt]_vars

\* ------------------------------------------------------------------------
\* Properties of the annual run
\* ------------------------------------------------------------------------

\* the loop has made a pass and cur holds what it computed
StepTaken == pc # "ready" /\ cur.row.Day # 0

\* the columns of a row holding a mode's incident irradiance and its power
IColumns == { "I_Horizontal_W_m2", "I_1Axis_Azimuth_W_m2", "I_1Axis_Polar_W_m2",
              "I_1Axis_Horizontal_W_m2", "I_1Axis_Elevation_W_m2", "I_2Axis_W_m2",
              "I_Fixed_EW_W_m2", "I_Fixed_NS_W_m2", "I_Fixed_W_m2" }
PColumns == { "P_Horiz", "P_1Axis_Az", "P_1Axis_Polar", "P_1Axis_Horiz", "P_1Axis_El",
              "P_2Axis", "P_Fixed_EW", "P_Fixed_NS", "P_Fixed" }

\* C1: at a step whose sun elevation is <= 0, calculate_irradiance returns 0
\* for DNI and for every other component, and if the step's row is kept
\* (the next hour is sunlit) every I_* and every P_* column the row has is 0.
C1_NightYieldsZero ==
    (StepTaken /\ cur.elevation <= 0) =>
        /\ LET irrad == calculate_irradiance(cur.row.Day, cur.elevation)
           IN  \A f \in DOMAIN irrad : irrad[f] = 0
        /\ kept => /\ cur.row.DNI_W_m2 = 0
                   /\ cur.row.GHI_W_m2 = 0
                   /\ \A c \in IColumns \cup PColumns : cur.row[c] \in { 0, None }

\* a transitional row: kept although the sun is down at the start of the step
C1_Witness == StepTaken /\ kept /\ cur.elevation <= 0 /\ cur.elevation_next > 0

\* C2: a pass of the loop for (day, hour) appends a row for that step if and
\* only if the sun elevation is > 0 at the step's start (hour) or at its end
\* (hour + 1); with elevation <= 0 at both ends no row is appended.
C2_RowIffSunUpAtEitherEnd ==
    [][ pc = "loop" =>
          LET sun_up == \/ calculate_geometry(day, hour).elevation > 0
                        \/ calculate_geometry(day, hour + 1).elevation > 0
          IN  /\ sun_up => /\ n_rows' = n_rows + 1
                           /\ kept'
                           /\ cur'.row.Day = day /\ cur'.row.Hour = hour
                           /\ "DNI_W_m2" \in DOMAIN cur'.row
              /\ ~sun_up => n_rows' = n_rows /\ ~kept' ]_vars

\* a row kept for the step in which the sun sets: up at the start, down at the end
C2_Witness == StepTaken /\ kept /\ n_rows > 1 /\ cur.elevation > 0 /\ cur.elevation_next <= 0

\* C3: generate_annual_profile raises no exception whatever optional
\* arguments are given or omitted: no call ends in an error when the totals
\* map is built. (The call of __main__, with fixed_tilt and fixed_azimuth
\* omitted, ends in KeyError 'P_Fixed'.)
C3_NoException == pc # "raised" /\ error = "none"

\* the Annual_Yield_* keys of the modes other than 2-Axis
OtherYieldKeys == { "Annual_Yield_Horizontal_kWh_m2", "Annual_Yield_1Axis_Azimuth_kWh_m2",
                    "Annual_Yield_1Axis_Polar_kWh_m2", "Annual_Yield_1Axis_Horizontal_kWh_m2",
                    "Annual_Yield_1Axis_Elevation_kWh_m2", "Annual_Yield_Fixed_EW_kWh_m2",
                    "Annual_Yield_Fixed_NS_kWh_m2", "Annual_Yield_Fixed_kWh_m2" }

\* a kept row with the sun above the horizon
SunlitRow == StepTaken /\ kept /\ cur.row.Elevation_deg > 0

\* every other mode's annual yield is <= Annual_Yield_2Axis
AnnualYieldDominance ==
    pc = "returned" =>
        \A k \in OtherYieldKeys \cap DOMAIN totals :
            totals[k] <= totals["Annual_Yield_2Axis_kWh_m2"]

\* 1 W/m2, and the resolution of the fixed-point irradiances (0.2 W/m2, from
\* the four-digit trigonometric tables), in centi-W/m2
IC_TOLERANCE == 1 * 100
IC_RESOLUTION == 2 * 10

\* C4 (as stated): in every row with sun elevation > 0 the incident irradiance
\* of every other mode is <= I_2Axis of the row (to the resolution of the
\* model), and every other mode's annual yield is <= Annual_Yield_2Axis.
C4_TwoAxisDominance ==
    /\ SunlitRow => \A c \in IColumns :
                        cur.row[c] = None \/ cur.row[c] <= cur.row.I_2Axis_W_m2 + IC_RESOLUTION
    /\ AnnualYieldDominance

\* C4 (amended): in every row with sun elevation > 0 the incident irradiance of
\* every other mode is <= I_2Axis + 1 W/m2 (a flatter panel sees more of the
\* diffuse sky than the 2-Axis panel), and every other mode's annual yield is
\* <= Annual_Yield_2Axis.
C4_TwoAxisDominanceWithinTolerance ==
    /\ SunlitRow => \A c \in IColumns :
                        cur.row[c] = None \/ cur.row[c] <= cur.row.I_2Axis_W_m2 + IC_TOLERANCE
    /\ AnnualYieldDominance

\* a returned call whose last row was sunlit, with a positive 2-Axis yield and
\* a Fixed Custom yield to compare
C4_Witness ==
    /\ pc = "returned"
    /\ n_rows > 0
    /\ totals["Annual_Yield_2Axis_kWh_m2"] > 0
    /\ "Annual_Yield_Fixed_kWh_m2" \in DOMAIN totals
    /\ totals["Annual_Yield_1Axis_Polar_kWh_m2"] > 0

\* ------------------------------------------------------------------------
\* Properties of the optimal-tilt searches
\* ------------------------------------------------------------------------

\* the objective the call in progress selects, at candidate t
ObjectiveAt(t) == TotalValue(method, t, daylight_data, optimize_electrical, s_efficiency)

\* C5: the tilt t (whole degrees) returned by each of the three searches has
\* max(0, |lat| - 5) <= t <= |lat| + 5, for integer and non-integer latitudes.
\* (The sweep is range(int(|lat|) - 5, int(|lat|) + 6): at latitude 78.9 it
\* returns 73 < 73.9.)
C5_TiltWithinFiveDegreesOfLatitude ==
    spc = "returned" =>
        /\ 100 * result[1] >= Max(0, Abs(latitude) - 500)
        /\ 100 * result[1] <= Abs(latitude) + 500

\* C6: the tilt returned by each search is a swept candidate at which the
\* objective selected by optimize_electrical is maximal over the swept
\* candidates (no candidate has a strictly larger objective), and it is the
\* lowest candidate with that objective. (Efficiencies are > 0, as callers
\* give them.)
C6_ReturnsLowestArgmax ==
    spc = "returned" =>
        /\ result[1] \in start_tilt .. (end_tilt - 1)
        /\ \E best \in { ObjectiveAt(result[1]) } :
             \A t \in start_tilt .. (end_tilt - 1) :
                \E v \in { ObjectiveAt(t) } :
                    /\ v <= best
                    /\ v = best => result[1] <= t

\* an electrical search whose winner is strictly inside the swept range
C6_Witness ==
    /\ spc = "returned"
    /\ optimize_electrical
    /\ start_tilt < result[1] /\ result[1] < end_tilt - 1

\* C7: whatever optimize_electrical is, the second value returned by each search
\* is the electrical yield (the sum of P_out over daylight_data) at the
\* returned tilt; after a geometric search it is not the objective's maximum.
C7_SecondValueIsElectricalYield ==
    spc = "returned" =>
        /\ result[2] = TotalValue(method, result[1], daylight_data, TRUE, s_efficiency)
        /\ ~optimize_electrical => result[2] # max_optimization_value

\* a geometric polar search that has returned a positive yield
C7_Witness ==
    /\ spc = "returned"
    /\ ~optimize_electrical
    /\ method = "1axis_polar"
    /\ result[2] > 0
    /\ max_optimization_value > result[2]

\* ------------------------------------------------------------------------
\* Properties of the 1-Axis Polar and 1-Axis Horizontal modes of the annual run
\* ------------------------------------------------------------------------

\* the row's columns of a tracker mode are those of a dark panel: no
\* irradiance, no power, no angular loss, the cell at ambient temperature
ZeroOutput(I, P, P_25C, Loss_Ang, T_cell) ==
    /\ cur.row[I] = 0
    /\ cur.row[P] = 0
    /\ cur.row[P_25C] = 0
    /\ cur.row[Loss_Ang] = 0
    /\ cur.row[T_cell] = cur.row.T_amb

\* the tracker's locals when the normal faces the ground
ZeroOrientation(t) == t.beta_c = 0 /\ t.phi_c = 0 /\ t.cos_theta = 0 /\ t.Ic = 0

\* C8: in the 1-Axis Polar and 1-Axis Horizontal modes a rotated normal with
\* n_rot_z < 0 is no error: the mode's tilt, azimuth, cos(theta) and Ic are 0,
\* so the row's P_out, P_at_25C and angular loss of the mode are 0 and its cell
\* temperature is the ambient temperature.
C8_FacingGroundIsZeroOutput ==
    (StepTaken /\ kept) =>
        /\ cur.n_polar.n_rot_z < 0 =>
              /\ ZeroOrientation(cur.polar)
              /\ ZeroOutput("I_1Axis_Polar_W_m2", "P_1Axis_Polar", "P_1Axis_Polar_25C",
                            "Loss_Ang_1Axis_Polar_W_m2", "T_cell_1Axis_Polar")
        /\ cur.n_horiz.n_rot_z < 0 =>
              /\ ZeroOrientation(cur.horiz_track)
              /\ ZeroOutput("I_1Axis_Horizontal_W_m2", "P_1Axis_Horiz", "P_1Axis_Horiz_25C",
                            "Loss_Ang_1Axis_Horizontal_W_m2", "T_cell_1Axis_Horiz")

\* a sunlit row in which both trackers' normals point below the horizon
C8_Witness ==
    /\ StepTaken /\ kept
    /\ cur.row.DNI_W_m2 > 0
    /\ cur.n_polar.n_rot_z < 0
    /\ cur.n_horiz.n_rot_z < 0

\* C9: in the 1-Axis Polar and 1-Axis Horizontal modes, whenever n_rot_z >= 0
\* the panel tilt is arccos(n_rot_z) and the azimuth atan2(n_rot_x, n_rot_y),
\* the orientation the polar optimal-tilt search computes from the same normal.
\* (The profile takes arcsin(n_rot_z): at hour angle 0 the 1-Axis Horizontal
\* panel stands at 90 degrees instead of lying flat.)
C9_TrackerTiltIsArccos ==
    (StepTaken /\ kept) =>
        /\ cur.n_polar.n_rot_z >= 0 =>
              << cur.polar.beta_c, cur.polar.phi_c >> = PolarSearchOrientation(cur.n_polar)
        /\ cur.n_horiz.n_rot_z >= 0 =>
              << cur.horiz_track.beta_c, cur.horiz_track.phi_c >>
                  = PolarSearchOrientation(cur.n_horiz)

\* the full vector n0 * cos(rho) + (k x n0) * sin(rho) of a rotated normal
Rodrigues(n) ==
    [ x |-> Mul(n.n0_x, Cos(n.rho)) + Mul(Mul(n.k_y, n.n0_z) - Mul(n.k_z, n.n0_y), Sin(n.rho)),
      y |-> Mul(n.n0_y, Cos(n.rho)) + Mul(Mul(n.k_z, n.n0_x) - Mul(n.k_x, n.n0_z), Sin(n.rho)),
      z |-> Mul(n.n0_z, Cos(n.rho)) + Mul(Mul(n.k_x, n.n0_y) - Mul(n.k_y, n.n0_x), Sin(n.rho)) ]

\* |n_rot|^2 is 1 to within one percent
UnitLength(n) ==
    Abs(n.n_rot_x * n.n_rot_x + n.n_rot_y * n.n_rot_y + n.n_rot_z * n.n_rot_z - SC * SC)
        <= (SC * SC) \div 100

\* the code's rotated normal is the full vector, and of unit length
IsFullRotation(n) ==
    /\ n.n_rot_x = Rodrigues(n).x
    /\ n.n_rot_y = Rodrigues(n).y
    /\ n.n_rot_z = Rodrigues(n).z
    /\ UnitLength(n)

\* C10: for every axis tilt, hour angle and noon panel azimuth the caller
\* supplies through fixed_azimuth, the rotated normal of the 1-Axis Polar and
\* 1-Axis Horizontal modes is n0 * cos(rho) + (k x n0) * sin(rho) in all three
\* components and a unit vector. (With fixed_azimuth = 45 the code's three
\* abbreviated components are neither.)
C10_RotatedNormalIsFullRodrigues ==
    (StepTaken /\ kept) => IsFullRotation(cur.n_polar) /\ IsFullRotation(cur.n_horiz)

\* the hour angle of the current step, H_deg of calculate_geometry
HourAngle == cur.row.HourAngle_deg

\* the rotation angle is H for an axis with k_y >= 0 and -H otherwise
RhoFollowsAxis(n) == n.rho = IF n.k_y >= 0 THEN HourAngle ELSE -HourAngle

\* a morning hour angle (0 < H <= 180) leaves the normal on the east side, an
\* afternoon one (-180 <= H < 0) on the west side
TurnsWithSun(n) ==
    /\ (0 < HourAngle /\ HourAngle <= 18000) => n.n_rot_x >= 0
    /\ (0 - 18000 <= HourAngle /\ HourAngle < 0) => n.n_rot_x <= 0

\* C11: the rotation angle of the 1-Axis Polar and 1-Axis Horizontal trackers
\* is rho = H when k_y >= 0 and rho = -H when k_y < 0; with the default axis
\* (no fixed_azimuth) of either hemisphere and of the equator a positive hour
\* angle of the morning turns the normal to the east (n_rot_x >= 0) and a
\* negative one to the west (n_rot_x <= 0).
C11_RotationFollowsSun ==
    (StepTaken /\ kept) =>
        /\ RhoFollowsAxis(cur.n_polar) /\ RhoFollowsAxis(cur.n_horiz)
        /\ args.fixed_azimuth = None =>
              TurnsWithSun(cur.n_polar) /\ TurnsWithSun(cur.n_horiz)

\* a southern morning row of a default call: the axis points south, the angle
\* is flipped and both normals lean east
C11_Witness ==
    /\ StepTaken /\ kept
    /\ args.fixed_azimuth = None /\ latitude < 0
    /\ HourAngle > 0 /\ cur.row.DNI_W_m2 > 0
    /\ cur.n_polar.k_y < 0 /\ cur.n_polar.rho = 0 - HourAngle
    /\ cur.n_polar.n_rot_x > 0 /\ cur.n_horiz.n_rot_x > 0

\* ------------------------------------------------------------------------
\* Direct calls: the model at one of the sites, then a call of
\* calculate_incident_irradiance or calculate_pv_performance on sample inputs,
\* or of generate_annual_profile with a time step
\* ------------------------------------------------------------------------

\* sun elevations (below the horizon, on it, above it), azimuths and panel
\* tilts in centi-degrees; DNI in centi-W/m2; the diffuse factor in 1/100000
QueryElevations == { 0 - 6000, 0 - 1000, 0, 3000, 9000 }
QuerySunAzimuths == { 0 - 9000, 0, 18000 }
QueryTilts == { 0, 3000, 9000 }
QueryPanelAzimuths == { 0, 9000, 18000 }
QueryDNIs == { 0, 100000 }
QueryDiffuseFactors == { 0, 10000 }

\* incident irradiance (also negative) in centi-W/m2, cos(theta) in 1/10000,
\* ambient temperature in centi-degrees C, efficiency in 1/10000
QueryIcs == { 0 - 10000, 0, 5000, 50000, 100000 }
QueryCosThetas == { 0 - 5000, 0, 1000, 5000, 10000 }
QueryTambs == { 0 - 2000, 0, 1500, 2500, 4000 }
QueryEfficiencies == { 1400, EFFICIENCY_DEFAULT }

\* the time steps the callers pass, in minutes
TimeSteps == { 60, 30, 5 }

InitQuery ==
    /\ \E i \in 1..NSites : SolarModelInit(Sites[i][1], Sites[i][2])
    /\ ProfileIdle
    /\ SearchIdle
    /\ QueryIdle

NextQuery ==
    \/ \E beta_deg \in QueryElevations, phi_s_deg \in QuerySunAzimuths,
          sigma_deg \in QueryTilts, phi_c_deg \in QueryPanelAzimuths,
          Ib \in QueryDNIs, C \in QueryDiffuseFactors :
           QueryIncident(beta_deg, phi_s_deg, sigma_deg, phi_c_deg, Ib, C)
    \/ \E Ic \in QueryIcs, cos_theta \in QueryCosThetas, T_amb \in QueryTambs,
          efficiency \in QueryEfficiencies :
           QueryPv(Ic, cos_theta, T_amb, efficiency)
    \/ \E i \in 1..NCalls, time_step_minutes \in TimeSteps :
           CallProfileWithTimeStep(CallArgs[i], time_step_minutes)

SpecQuery == InitQuery /\ [][NextQuery]_vars

\* ------------------------------------------------------------------------
\* Properties of the direct calls
\* ------------------------------------------------------------------------

AskedPv == query.fn = "calculate_pv_performance"
AskedIncident == query.fn = "calculate_incident_irradiance"

\* the smallest P_at_25C (2 W/m2) and the highest cell temperature (24 C) at
\* which a thermal gain is at least one unit of the model's power resolution
P_RESOLVED == 2 * 100
T_RESOLVED == 24 * 100

\* C12: every result of calculate_pv_performance has P_out >= 0,
\* P_at_25C >= 0 and Loss_Angular >= 0 for any inputs; Loss_Thermal is not
\* floored: with the cell below 25 C and a positive effective irradiance it
\* is never positive, and negative as soon as the gain is resolvable.
C12_FlooredExceptThermalLoss ==
    AskedPv =>
        /\ answer.P_out >= 0
        /\ answer.P_at_25C >= 0
        /\ answer.Loss_Angular >= 0
        /\ (answer.T_cell < 2500 /\ answer.P_at_25C > 0) => answer.Loss_Thermal <= 0
        /\ (answer.T_cell <= T_RESOLVED /\ answer.P_at_25C >= P_RESOLVED)
              => answer.Loss_Thermal < 0

\* a cold cell under a positive irradiance: the thermal loss came back negative
C12_Witness ==
    /\ AskedPv
    /\ query.in[1] > 0 /\ query.in[2] > 0
    /\ answer.T_cell < 2500
    /\ answer.P_out > answer.P_at_25C
    /\ answer.Loss_Thermal < 0

\* ------------------------------------------------------------------------
\* The Fixed North-South mode against two single-panel runs
\* ------------------------------------------------------------------------

\* the tilt of both panels of Mode 8, centi-degrees
tilt_ns == 45 * 100

\* the arguments of the independent run with the single panel at azimuth az
SinglePanelArgs(az) == ProfileArgs(args.efficiency, tilt_ns, az, None)

\* P_Fixed of the row that run appends for (d, h); 0 when it appends none
SinglePanelPower(d, h, az) ==
    LET b == LoopBody(d, h, SinglePanelArgs(az))
    IN  IF StepSkipped(b.elevation, b.elevation_next) THEN 0 ELSE b.row.P_Fixed

\* the steps of a run, numbered from 0: 24 for each day visited
StepsPerRun == 24 * ((last_day - 1) \div DayStep + 1)
StepDay(i) == 1 + (i \div 24) * DayStep

\* df['P_Fixed'].sum() of that run over steps lo .. hi
RECURSIVE SinglePanelSum(_, _, _)
SinglePanelSum(az, lo, hi) ==
    IF lo > hi THEN 0
    ELSE IF lo = hi THEN SinglePanelPower(StepDay(lo), lo % 24, az)
    ELSE SinglePanelSum(az, lo, (lo + hi) \div 2)
         + SinglePanelSum(az, (lo + hi) \div 2 + 1, hi)

\* Annual_Yield_Fixed_kWh_m2 of that run
SinglePanelYield(az) == SinglePanelSum(az, 0, StepsPerRun - 1)

\* C13: for the same model and efficiency, row by row P_Fixed_NS is the mean
\* of P_Fixed of the two runs with fixed_tilt = 45 and fixed_azimuth = 0 and
\* 180, and Annual_Yield_Fixed_NS is the average of their Annual_Yield_Fixed
\* (to half a unit of the power resolution per row).
C13_FixedNSIsMeanOfTwoRuns ==
    /\ (StepTaken /\ kept) =>
          Abs(2 * cur.row.P_Fixed_NS
              - (SinglePanelPower(cur.row.Day, cur.row.Hour, 0)
                 + SinglePanelPower(cur.row.Day, cur.row.Hour, 18000))) <= 1
    /\ pc = "returned" =>
          Abs(2 * totals["Annual_Yield_Fixed_NS_kWh_m2"]
              - (SinglePanelYield(0) + SinglePanelYield(18000))) <= n_rows

\* a returned run whose two single-panel runs yield different, positive totals
C13_Witness ==
    /\ pc = "returned"
    /\ totals["Annual_Yield_Fixed_NS_kWh_m2"] > 0
    /\ SinglePanelYield(0) > 0
    /\ SinglePanelYield(18000) > 0
    /\ SinglePanelYield(0) # SinglePanelYield(18000)

AskedTimeStep == query.fn = "generate_annual_profile"

\* C14: generate_annual_profile accepts a configurable time step in minutes,
\* sweeps each day at that step and weights each row's power by the step in
\* hours, so that a 60-minute and a 5-minute run integrate the same energy.
\* (As stated: the call with a time step does not raise, and returns totals.)
C14_TimeStepAccepted ==
    AskedTimeStep => pc # "raised" /\ error = "none"

\* ------------------------------------------------------------------------
\* Properties of the totals map
\* ------------------------------------------------------------------------

\* the modes other than the 2-Axis reference: the Ratio_Yield_* key of each
\* and its power column
RatioOfEveryMode == {
    <<"Ratio_Yield_Horizontal_vs_2Axis_Percent", "P_Horiz">>,
    <<"Ratio_Yield_Fixed_vs_2Axis_Percent", "P_Fixed">>,
    <<"Ratio_Yield_Fixed_EW_vs_2Axis_Percent", "P_Fixed_EW">>,
    <<"Ratio_Yield_Fixed_NS_vs_2Axis_Percent", "P_Fixed_NS">>,
    <<"Ratio_Yield_1Axis_Azimuth_vs_2Axis_Percent", "P_1Axis_Az">>,
    <<"Ratio_Yield_1Axis_Elevation_vs_2Axis_Percent", "P_1Axis_El">>,
    <<"Ratio_Yield_1Axis_Polar_vs_2Axis_Percent", "P_1Axis_Polar">>,
    <<"Ratio_Yield_1Axis_Horizontal_vs_2Axis_Percent", "P_1Axis_Horiz">> }

\* the capacity-factor and loss-total keys of all nine modes
PerModeKeys ==
    { "CF_Overall_Horizontal", "CF_Overall_Fixed", "CF_Overall_Fixed_EW",
      "CF_Overall_Fixed_NS", "CF_Overall_1Axis_Azimuth", "CF_Overall_1Axis_Elevation",
      "CF_Overall_1Axis_Polar", "CF_Overall_1Axis_Horizontal", "CF_Overall_2Axis",
      "CF_Daylight_Horizontal", "CF_Daylight_Fixed", "CF_Daylight_Fixed_EW",
      "CF_Daylight_Fixed_NS", "CF_Daylight_1Axis_Azimuth", "CF_Daylight_1Axis_Elevation",
      "CF_Daylight_1Axis_Polar", "CF_Daylight_1Axis_Horizontal", "CF_Daylight_2Axis",
      "Annual_Loss_Ang_Horiz_kWh_m2", "Annual_Loss_Ang_Fixed_kWh_m2",
      "Annual_Loss_Ang_Fixed_EW_kWh_m2", "Annual_Loss_Ang_Fixed_NS_kWh_m2",
      "Annual_Loss_Ang_1Axis_Az_kWh_m2", "Annual_Loss_Ang_1Axis_El_kWh_m2",
      "Annual_Loss_Ang_1Axis_Polar_kWh_m2", "Annual_Loss_Ang_1Axis_Horizontal_kWh_m2",
      "Annual_Loss_Ang_2Axis_kWh_m2",
      "Annual_Loss_Therm_Horiz_kWh_m2", "Annual_Loss_Therm_Fixed_kWh_m2",
      "Annual_Loss_Therm_Fixed_EW_kWh_m2", "Annual_Loss_Therm_Fixed_NS_kWh_m2",
      "Annual_Loss_Therm_1Axis_Az_kWh_m2", "Annual_Loss_Therm_1Axis_El_kWh_m2",
      "Annual_Loss_Therm_1Axis_Polar_kWh_m2", "Annual_Loss_Therm_1Axis_Horizontal_kWh_m2",
      "Annual_Loss_Therm_2Axis_kWh_m2" }

\* the entry of a mode is 100 * its annual yield / the 2-Axis annual yield
HoldsRatio(p) ==
    /\ p[1] \in DOMAIN totals
    /\ totals[p[1]] = IF sums["P_2Axis"] > 0
                      THEN RatioPercent(sums[p[2]], sums["P_2Axis"])
                      ELSE 0

\* C15: the returned totals map holds, for every mode other than the 2-Axis
\* reference (Horizontal, Fixed, Fixed E-W, Fixed N-S, 1-Axis Azimuth, 1-Axis
\* Elevation, 1-Axis Polar, 1-Axis Horizontal), a Ratio_Yield_*_vs_2Axis_Percent
\* entry equal to 100 x the mode's yield / the 2-Axis yield (0 when that is
\* 0), and for every mode a CF_Overall, a CF_Daylight, an angular-loss total
\* and a thermal-loss total. (The code sets no ratio for 1-Axis Horizontal.)
C15_TotalsHoldEveryMode ==
    pc = "returned" =>
        /\ \A p \in RatioOfEveryMode : HoldsRatio(p)
        /\ PerModeKeys \subseteq DOMAIN totals

\* ------------------------------------------------------------------------
\* Properties of the tracker axes
\* ------------------------------------------------------------------------

\* the axis points 180 degrees away from the panel's noon azimuth
AxisOppositeNoonAzimuth(n) == (n.axis_azimuth - n.panel_azimuth_noon) % 36000 = 18000

\* the 1-Axis Horizontal axis: tilt 0, the azimuth of the polar axis
HorizontalAxisFollowsPolar ==
    /\ cur.n_horiz.axis_tilt = 0
    /\ cur.n_horiz.axis_azimuth = cur.n_polar.axis_azimuth
    /\ cur.n_horiz.panel_azimuth_noon = cur.n_polar.panel_azimuth_noon

\* C16, as stated: the 1-Axis Polar axis tilt is optimal_tilt when one is
\* supplied and |latitude| otherwise, independently of fixed_tilt; the axis
\* azimuth is 180 degrees away from the noon azimuth; 1-Axis Horizontal has
\* the same axis azimuth and axis tilt 0.
C16_PolarAxisTiltIgnoresFixedTilt ==
    (StepTaken /\ kept) =>
        /\ cur.n_polar.axis_tilt = IF args.optimal_tilt # None THEN args.optimal_tilt
                                   ELSE Abs(latitude)
        /\ AxisOppositeNoonAzimuth(cur.n_polar)
        /\ HorizontalAxisFollowsPolar

\* C16, amended: the 1-Axis Polar axis tilt is optimal_tilt when one is
\* supplied, otherwise fixed_tilt when one is supplied, otherwise |latitude|;
\* the axis azimuth is 180 degrees away from the noon azimuth; 1-Axis
\* Horizontal has the same axis azimuth and axis tilt 0.
C16_PolarAxisTilt ==
    (StepTaken /\ kept) =>
        /\ cur.n_polar.axis_tilt = IF args.optimal_tilt # None THEN args.optimal_tilt
                                   ELSE IF args.fixed_tilt # None THEN args.fixed_tilt
                                   ELSE Abs(latitude)
        /\ AxisOppositeNoonAzimuth(cur.n_polar)
        /\ HorizontalAxisFollowsPolar

\* a row of a call with a fixed_tilt other than |latitude| and no optimal_tilt
C16_Witness ==
    /\ StepTaken /\ kept
    /\ args.optimal_tilt = None
    /\ args.fixed_tilt # None /\ args.fixed_tilt # Abs(latitude)
    /\ cur.n_polar.axis_tilt = args.fixed_tilt
    /\ cur.n_horiz.axis_tilt = 0

\* ------------------------------------------------------------------------
\* Successive calls on one model: the default site, then annual runs, fixed
\* tilt searches and geometry queries in any order
\* ------------------------------------------------------------------------

\* the (day, hour) the caller asks calculate_geometry about
GeometryQueries == { << 172, 12 >> }

InitCalls ==
    /\ SolarModelInit(Sites[1][1], Sites[1][2])
    /\ ProfileIdle
    /\ SearchIdle
    /\ QueryIdle

NextCalls ==
    \/ CallProfile(CallArgs[2])
    \/ Step
    \/ BuildTotals
    \/ CallSearch("fixed", FALSE, EFFICIENCY_DEFAULT)
    \/ DatasetStep
    \/ TryTilt
    \/ Finish
    \/ \E q \in GeometryQueries : QueryGeometry(q[1], q[2])
    \/ ReturnToCaller
    \/ CallProfileAtOptimum

SpecCalls == InitCalls /\ [][NextCalls]_vars

\* the model's fields hold the values __init__ gave them
ModelAsConstructed ==
    /\ latitude = Sites[1][1]
    /\ longitude = Sites[1][2]
    /\ local_time_meridian = PyRound(Sites[1][2], 1500) * 1500
    /\ tilt = Abs(Sites[1][1])
    /\ azimuth = IF Sites[1][1] < 0 THEN 0 ELSE 18000

SameCall(c, d) == c.fn = d.fn /\ c.in = d.in

\* any two calls with the same arguments gave the same result, the one that
\* has just finished included
RepeatedCallsAgree ==
    /\ \A i, j \in DOMAIN history :
          SameCall(history[i].call, history[j].call)
              => history[i].result = history[j].result
    /\ Finished =>
          \A i \in DOMAIN history :
              SameCall(history[i].call, CurrentCall) => history[i].result = CurrentResult

\* C17: no query, optimal-tilt search or annual simulation modifies the
\* model's latitude, longitude, local_time_meridian, default tilt or default
\* azimuth: after any sequence of calls they hold the values set at
\* construction, and a call made twice with the same arguments returns equal
\* results whichever other calls ran in between.
C17_CallsLeaveModelUnchanged ==
    /\ ModelAsConstructed
    /\ RepeatedCallsAgree

\* an annual run, then a search, then the same annual run again, returned
\* with the totals of the first
C17_Witness ==
    /\ Len(history) = 2
    /\ history[1].call.fn = "generate_annual_profile"
    /\ history[2].call.fn = "fixed"
    /\ pc = "returned"
    /\ SameCall(history[1].call, CurrentCall)
    /\ history[1].result.totals = totals
    /\ totals["Annual_Yield_2Axis_kWh_m2"] > 0

\* ------------------------------------------------------------------------
\* Properties of calculate_incident_irradiance
\* ------------------------------------------------------------------------

\* C18: calculate_incident_irradiance never returns a negative total Ic or a
\* negative cos(theta), for any sun elevation (below the horizon included),
\* any azimuths and panel tilt and any non-negative DNI and diffuse factor.
\* (With the sun far below the horizon the reflected term rho * Ib *
\* (sin(beta) + C) * (1 - cos(sigma)) / 2 is negative and is not floored.)
C18_IncidentNeverNegative ==
    AskedIncident => answer[1] >= 0 /\ answer[2] >= 0

\* C19: for panel tilt 0 and sun elevation >= 0, calculate_incident_irradiance
\* returns cos(theta) = sin(elevation) and the same Ic, Ib * sin(elevation)
\* + C * Ib, for every pair of sun azimuth and panel azimuth.
C19_FlatPanelReduction ==
    (AskedIncident /\ query.in[3] = 0 /\ query.in[1] >= 0) =>
        /\ answer[2] = Sin(query.in[1])
        /\ answer[1] = Mul(query.in[5], Sin(query.in[1])) + RDiv(query.in[6] * query.in[5], ESC)

\* a flat panel under a sun that is up, the two azimuths apart
C19_Witness ==
    /\ AskedIncident
    /\ query.in[3] = 0
    /\ query.in[1] > 0 /\ query.in[1] < 9000
    /\ query.in[2] # query.in[4]
    /\ query.in[5] > 0 /\ query.in[6] > 0
    /\ answer[2] > 0 /\ answer[1] > 0

\* ------------------------------------------------------------------------
\* Properties of the 1-Axis Azimuth mode at tilt 0
\* ------------------------------------------------------------------------

\* the tilt of the azimuth tracker of the current call is 0: optimal_tilt = 0,
\* or none supplied at latitude 0
AzimuthTrackerIsFlat ==
    IF args.optimal_tilt # None THEN args.optimal_tilt = 0 ELSE latitude = 0

\* C20: in an annual profile whose 1-Axis Azimuth tilt is 0, every row has
\* I_1Axis_Azimuth equal to I_Horizontal and P_1Axis_Az equal to P_Horiz.
C20_FlatAzimuthTrackerIsHorizontal ==
    (StepTaken /\ kept /\ AzimuthTrackerIsFlat) =>
        /\ cur.row.I_1Axis_Azimuth_W_m2 = cur.row.I_Horizontal_W_m2
        /\ cur.row.P_1Axis_Az = cur.row.P_Horiz

\* a sunlit row at the equator with the sun off the meridian, in a call with
\* a custom fixed tilt
C20_Witness ==
    /\ StepTaken /\ kept /\ AzimuthTrackerIsFlat
    /\ args.fixed_tilt # None /\ args.fixed_tilt # 0
    /\ cur.row.Azimuth_deg # 0
    /\ cur.row.DNI_W_m2 > 0
    /\ cur.row.P_Horiz > 0
    /\ cur.row.P_1Axis_Az = cur.row.P_Horiz


\* ------------------------------------------------------------------------
\* Capacity factors, construction, the elevation tracker, the sun's azimuth
\* ------------------------------------------------------------------------

\* 100 percent, in the unit of calc_cf (1/100 percent)
CF_FULL == 100 * 100

\* C21: for every site and every mode, the CF_Daylight entry of the totals map
\* of a call that returned is between 0 and 100 percent.
C21_DaylightCapacityFactorIsPercentage ==
    pc = "returned" =>
        \A k \in Keys(CFDaylightPairs) :
            /\ k \in DOMAIN totals
            /\ totals[k] >= 0
            /\ totals[k] <= CF_FULL

\* a returned call with daylight rows whose 2-Axis daylight capacity factor is
\* above 40 percent and whose Fixed Custom one is positive
C21_Witness ==
    /\ pc = "returned"
    /\ daylight_hours_count > 0
    /\ totals["CF_Daylight_2Axis"] > 40 * 100
    /\ totals["CF_Daylight_Fixed"] > 0

\* ------------------------------------------------------------------------
\* Construction at any site, then one call of calculate_geometry or
\* calculate_ambient_temperature
\* ------------------------------------------------------------------------

\* latitudes: the poles, the polar circles, the tropics, the band boundaries
\* of the temperature model, the equator and its +-0.1 degree neighbourhood
SiteLatitudes == { 0 - 9000, 0 - 6650, 0 - 6030, 0 - 5000, 0 - 3205, 0 - 2345, 0 - 1000,
                   0 - 10, 0 - 5, 0, 5, 10, 1000, 2000, 2345, 4570, 4999, 5000, 6030,
                   6650, 7890, 9000 }

\* longitudes: every 7.5 degrees of [-180, 180] (the multiples of 15 and the
\* points half-way between two of them) and the longitudes of the sites
SiteLongitudes == { 750 * k - 18000 : k \in 0..48 } \cup { 11589, 250, 0 - 1050, 749, 751 }

\* days: the solstices, the equinoxes, the temperature peaks, the year's ends
QueryDays == { 1, 15, 81, 172, 195, 264, 355, 365 }
QueryHours == { 0, 3, 9, 12, 15, 21 }

\* the clock time of solar noon (solar_time = 12 h, hour angle 0)
SolarNoonClock(day_of_year) == 12 * 6000 - calculate_geometry_clock(day_of_year, 0).solar_time

InitSite ==
    /\ \E lat \in SiteLatitudes, lon \in SiteLongitudes : SolarModelInit(lat, lon)
    /\ ProfileIdle
    /\ SearchIdle
    /\ QueryIdle

NextSite ==
    \/ \E d \in QueryDays, h \in QueryHours : QueryGeometryClock(d, h * 6000)
    \/ \E d \in QueryDays : QueryGeometryClock(d, SolarNoonClock(d))
    \/ \E d \in QueryDays, h \in QueryHours : QueryAmbient(d, h)

SpecSite == InitSite /\ [][NextSite]_vars

\* C22: for every longitude in [-180, 180] the local_time_meridian set at
\* construction is an integer multiple of 15 degrees and a nearest one to the
\* longitude: |longitude - local_time_meridian| <= 7.5 degrees.
C22_MeridianIsNearestMultipleOf15 ==
    /\ local_time_meridian % 1500 = 0
    /\ Abs(longitude - local_time_meridian) <= 750

\* a model built half-way between two meridians (longitude 22.5, meridian 30)
\* that has answered a call
C22_Witness ==
    /\ longitude = 2250
    /\ local_time_meridian = 3000
    /\ query # NoQuery

\* a row has just been appended to data
RowKept == StepTaken /\ kept

\* the equator-facing azimuth: 0 for negative latitude, 180 otherwise
EquatorFacing == IF latitude < 0 THEN 0 ELSE 18000

\* in a row the 1-Axis Elevation panel azimuth is 0 or 180, 0 within 0.1
\* degree of the equator and equator-facing at |latitude| >= 23.45
ElevationAzimuthByBand ==
    RowKept =>
        /\ cur.phi_c_el_track \in { 0, 18000 }
        /\ Abs(latitude) < 10 => cur.phi_c_el_track = 0
        /\ Abs(latitude) >= 2345 => cur.phi_c_el_track = EquatorFacing

\* two successive rows of one day use the same azimuth and declination
SameAzimuthWithinDay ==
    (RowKept /\ RowKept' /\ cur'.row.Day = cur.row.Day) =>
        /\ cur'.phi_c_el_track = cur.phi_c_el_track
        /\ cur'.row.Declination_deg = cur.row.Declination_deg

\* C23: in every annual-profile row the 1-Axis Elevation panel azimuth is 0 or
\* 180 and does not depend on the hour (all rows of one day use the same
\* azimuth); it is 0 on every day when |latitude| < 0.1 and equator-facing on
\* every day when |latitude| >= 23.45.
C23_ElevationAzimuthFixedPerDay ==
    []ElevationAzimuthByBand /\ [][SameAzimuthWithinDay]_vars

\* a row at the equator on a day of negative declination, the panel facing
\* north
C23_Witness ==
    /\ RowKept
    /\ latitude = 0
    /\ cur.row.Declination_deg < 0
    /\ cur.phi_c_el_track = 0

\* C24: at a latitude inside the tropics but not at the equator
\* (0.1 <= |latitude| < 23.45) the 1-Axis Elevation tracker faces north
\* (azimuth 0) exactly on the days on which the sun is in the northern sky at
\* solar noon (declination > latitude) and south (azimuth 180) exactly on the
\* days on which it is in the southern sky (declination < latitude).
C24_TropicalTrackerFacesNoonSun ==
    (RowKept /\ Abs(latitude) >= 10 /\ Abs(latitude) < 2345) =>
        /\ cur.phi_c_el_track = 0 <=> cur.row.Declination_deg > latitude
        /\ cur.phi_c_el_track = 18000 <=> cur.row.Declination_deg < latitude

\* the call made was calculate_geometry
AskedGeometry == query.fn = "calculate_geometry"

\* the angle from the zenith below which the fixed-point sine of the
\* elevation rounds to 1 and the model takes the "cos(beta) == 0" branch
\* (1 degree; the floats take it only at exactly 90 degrees)
ZENITH_RESOLUTION == 1 * 100

\* C25: for every latitude and every day, the azimuth calculate_geometry
\* returns at solar noon (hour angle 0) is in the northern half of the sky
\* (|azimuth| <= 90) when the latitude is below the declination and in the
\* southern half (|azimuth| > 90) when the latitude is above it; and every
\* azimuth returned, at any hour, lies in [-180, 180]. (Latitude and
\* declination are told apart from ZENITH_RESOLUTION on.)
C25_NoonAzimuthSideAndRange ==
    AskedGeometry =>
        /\ answer.azimuth >= -18000
        /\ answer.azimuth <= 18000
        /\ answer.hour_angle = 0 =>
              /\ latitude + ZENITH_RESOLUTION <= answer.declination =>
                    Abs(answer.azimuth) <= 9000
              /\ latitude - ZENITH_RESOLUTION >= answer.declination =>
                    Abs(answer.azimuth) > 9000

\* solar noon at latitude 10 on a day when the declination is above the
\* latitude: the sun is to the north
C25_Witness ==
    /\ AskedGeometry
    /\ answer.hour_angle = 0
    /\ latitude = 1000
    /\ answer.declination > latitude
    /\ Abs(answer.azimuth) <= 9000

\* the call made was calculate_ambient_temperature
AskedAmbient == query.fn = "calculate_ambient_temperature"

\* a band of |latitude| with boundaries lower and upper
Band(abs_lat, lower, upper) ==
    IF abs_lat < lower THEN "tropical" ELSE IF abs_lat < upper THEN "temperate" ELSE "polar"

\* the annual mean and the seasonal amplitude of a band, centi-degrees Celsius
MeanOfBand(band, abs_lat) ==
    IF band = "tropical" THEN 2700 - RDiv(15 * abs_lat, 100)
    ELSE IF band = "temperate" THEN 3000 - RDiv(40 * abs_lat, 100)
    ELSE 2000 - RDiv(30 * abs_lat, 100)

AmplitudeOfBand(band, abs_lat) ==
    IF band = "tropical" THEN 200 + RDiv(15 * abs_lat, 100)
    ELSE IF band = "temperate" THEN 500 + RDiv(30 * abs_lat, 100)
    ELSE 2000

\* the temperature of (day, hour) for a mean and an amplitude: the seasonal
\* cosine peaking on day 15 (south) or 195 (north), the diurnal one of 10
\* degrees with its trough at 03:00
BandTemperature(mean, amplitude, day_of_year, h) ==
    mean + Mul(amplitude, Cos(YearAngle(day_of_year, IF latitude < 0 THEN 15 ELSE 195, 365)))
    - Mul(1000, Cos(1500 * (h - 3)))

\* the result is the band temperature with the amplitude's bands ending at
\* amplitude_upper, and lies in [-50, 55]
AmbientFollowsBands(amplitude_upper) ==
    AskedAmbient =>
        /\ answer = BandTemperature(
                        MeanOfBand(Band(Abs(latitude), 2345, 5000), Abs(latitude)),
                        AmplitudeOfBand(Band(Abs(latitude), 2345, amplitude_upper),
                                        Abs(latitude)),
                        query.in[1], query.in[2])
        /\ answer >= -5000
        /\ answer <= 5500

\* C26 (as stated): calculate_ambient_temperature selects the annual mean
\* formula and the seasonal-amplitude formula by the same three |latitude|
\* bands, with boundaries at 23.45 and 50 degrees, and its result lies in
\* [-50, 55].
C26_SameBandsForMeanAndAmplitude == AmbientFollowsBands(5000)

\* C26 (amended): the annual mean is selected by the bands with boundaries at
\* 23.45 and 50 degrees, the seasonal amplitude by bands with boundaries at
\* 23.45 and 66.5 degrees, and the result lies in [-50, 55].
C26_AmplitudeBandsEndAtPolarCircle == AmbientFollowsBands(6650)

\* latitude 60.3 (polar mean, temperate amplitude 23.09) at the seasonal and
\* diurnal peak: above the 31.91 degrees a polar amplitude of 20 would give
C26_Witness ==
    /\ AskedAmbient
    /\ latitude = 6030
    /\ query.in = << 195, 15 >>
    /\ answer > 3300

\* (Day, Hour) of step x comes before (Day, Hour) of step y
Precedes(x, y) ==
    \/ x.row.Day < y.row.Day
    \/ x.row.Day = y.row.Day /\ x.row.Hour < y.row.Hour

\* a pass of the loop stamps its step with the loop's (day, hour), and the
\* step before it in the same call has an earlier (Day, Hour)
StepInOrder ==
    (pc = "loop" /\ cur' # cur) =>
        /\ cur'.row.Day = day
        /\ cur'.row.Hour = hour
        /\ StepTaken => Precedes(cur, cur')

\* C27: the rows generate_annual_profile returns are strictly increasing in
\* (Day, step of the day): the steps are taken in strictly increasing
\* (Day, Hour), each appends at most one row, stamped with its own (Day, Hour),
\* so no two rows share a day and time step and none precedes an earlier one.
C27_RowsStrictlyIncreasing == [][StepInOrder]_vars

\* a row appended after at least one other, on a later day than the first
C27_Witness ==
    /\ RowKept
    /\ n_rows >= 2
    /\ cur.row.Day > 1
    /\ cur.row.Hour > 0

\* the days the loop visits and the steps it takes
VisitedDays == (last_day - 1) \div DayStep + 1
VisitedSteps == 24 * VisitedDays

\* the CF_Overall key of the mode of a CF_Daylight key
OverallKey(k) == CHOOSE o \in Keys(CFOverallPairs) :
                    Second(CFOverallPairs, o) = Second(CFDaylightPairs, k)

\* C28: at the end of generate_annual_profile totals['Daylight_Hours'] equals
\* the number of rows returned and is at most 8760 (at most one row per step
\* of the sweep), so for every mode CF_Overall <= CF_Daylight.
C28_DaylightHoursIsRowCount ==
    pc = "returned" =>
        /\ totals["Daylight_Hours"] = n_rows
        /\ n_rows <= VisitedSteps
        /\ VisitedSteps <= total_hours
        /\ \A k \in Keys(CFDaylightPairs) : totals[OverallKey(k)] <= totals[k]

\* a returned call whose rows include transitional ones, with a positive
\* overall capacity factor below the daylight one
C28_Witness ==
    /\ pc = "returned"
    /\ n_rows > 100
    /\ totals["Daylight_Hours"] = n_rows
    /\ totals["CF_Overall_2Axis"] > 0
    /\ totals["CF_Overall_2Axis"] < totals["CF_Daylight_2Axis"]

\* the profile call in progress is the fixed panel at the tilt search h
\* returned, with h's efficiency and the equator-facing azimuth
ProfileAtOptimumOf(h) ==
    /\ h.call.fn = "fixed"
    /\ args = ProfileArgs(h.call.in[2], 100 * h.result[1], EquatorFacing, None)

\* C29: the electrical yield calculate_optimal_tilt returns for its winning
\* tilt t equals the Annual_Yield_Fixed that generate_annual_profile reports
\* for the same model and efficiency with fixed_tilt = t and the
\* equator-facing fixed_azimuth (the rows the profile keeps beyond the
\* search's daylight steps contribute zero power).
C29_SearchYieldIsProfileFixedYield ==
    pc = "returned" =>
        \A i \in 1..Len(history) :
            ProfileAtOptimumOf(history[i]) =>
                totals["Annual_Yield_Fixed_kWh_m2"] = history[i].result[2]

\* such a profile has returned after the search, both with a positive yield
C29_Witness ==
    /\ pc = "returned"
    /\ Len(history) > 0
    /\ ProfileAtOptimumOf(history[1])
    /\ history[1].result[2] > 0
    /\ totals["Annual_Yield_Fixed_kWh_m2"] > 0

\* per mode: the P, P_25C and Loss_Therm columns of a row, and whether they
\* are dual-panel averages
ModeColumns == {
    << "P_Horiz", "P_Horiz_25C", "Loss_Therm_Horiz_W_m2", FALSE >>,
    << "P_1Axis_Az", "P_1Axis_Az_25C", "Loss_Therm_1Axis_Az_W_m2", FALSE >>,
    << "P_1Axis_Polar", "P_1Axis_Polar_25C", "Loss_Therm_1Axis_Polar_W_m2", FALSE >>,
    << "P_1Axis_Horiz", "P_1Axis_Horiz_25C", "Loss_Therm_1Axis_Horizontal_W_m2", FALSE >>,
    << "P_1Axis_El", "P_1Axis_El_25C", "Loss_Therm_1Axis_El_W_m2", FALSE >>,
    << "P_2Axis", "P_2Axis_25C", "Loss_Therm_2Axis_W_m2", FALSE >>,
    << "P_Fixed", "P_Fixed_25C", "Loss_Therm_Fixed_W_m2", FALSE >>,
    << "P_Fixed_EW", "P_Fixed_EW_25C", "Loss_Therm_Fixed_EW_W_m2", TRUE >>,
    << "P_Fixed_NS", "P_Fixed_NS_25C", "Loss_Therm_Fixed_NS_W_m2", TRUE >> }

\* the totals key that sums column c
TotalKeyOf(c) == (CHOOSE p \in SumPairs \cup FixedSumPairs : p[2] = c)[1]

\* P + Loss_Therm - P_25C is 0; an averaged column is rounded to 0.01 W/m2 on
\* its own, which leaves at most that much per row
Balanced(P, Loss, P25, dual, rows) ==
    IF dual THEN P + Loss - P25 \in 0..rows ELSE P + Loss = P25

\* every mode of the row balances
RowBalances ==
    RowKept =>
        \A m \in ModeColumns :
            cur.row[m[1]] # None =>
                Balanced(cur.row[m[1]], cur.row[m[3]], cur.row[m[2]], m[4], 1)

\* every mode of the totals map balances
TotalsBalance ==
    pc = "returned" =>
        \A m \in ModeColumns :
            TotalKeyOf(m[1]) \in DOMAIN totals =>
                Balanced(totals[TotalKeyOf(m[1])], totals[TotalKeyOf(m[3])],
                         totals[TotalKeyOf(m[2])], m[4], n_rows)

\* C30: for every mode of every annual-profile row, the averaged Fixed E-W and
\* Fixed N-S included, the reported power plus the reported thermal loss
\* equals the reported cooled power (P + Loss_Therm = P_25C), and for every
\* mode Annual_Yield + Annual_Loss_Therm = Annual_Yield_Cooled in the totals.
C30_PowerPlusThermalLossIsCooledPower == RowBalances /\ TotalsBalance

\* a row of a cold panel: power above the cooled power, the thermal loss
\* negative, in a single-panel and in an averaged mode
C30_Witness ==
    /\ RowKept
    /\ cur.row.P_2Axis > cur.row.P_2Axis_25C
    /\ cur.row.Loss_Therm_2Axis_W_m2 < 0
    /\ cur.row.Loss_Therm_Fixed_EW_W_m2 < 0
    /\ cur.row.P_Fixed # None

=============================================================================
